---- MODULE Spec2Model ----
(***************************************************************************)
(* Submission Judge and Sandbox Runner of hirecode-ai-openai/backend.      *)
(*                                                                         *)
(* One SubmissionJudge.evaluate call (judge.py) drives DockerRunner.run    *)
(* (runner.py) once per test case; every run creates one container and     *)
(* walks it through create, put_archive, start, wait, logs, remove.        *)
(* Text is a sequence of one-character strings, so that str.strip() is     *)
(* computed and not assumed.                                               *)
(***************************************************************************)
EXTENDS Integers, Sequences, FiniteSets, TLC

\* ------------------------------------------------------------------ bounds

\* Largest number of test cases (visible plus hidden) of a task file.
MaxTests == 2

\* Largest number of anti-cheat events given to the anti-cheat objects.
MaxEvents == 2

\* Number of run calls made concurrently on one DockerRunner.
MaxCalls == 2

\* ------------------------------------------------------------------- text

\* Characters str.strip() removes, among the characters of the model.
Whitespace == {" ", "\n", "\t"}

RECURSIVE LStrip(_)
LStrip(s) ==
    IF s /= <<>> /\ Head(s) \in Whitespace THEN LStrip(Tail(s)) ELSE s

RECURSIVE RStrip(_)
RStrip(s) ==
    IF s /= <<>> /\ s[Len(s)] \in Whitespace
    THEN RStrip(SubSeq(s, 1, Len(s) - 1))
    ELSE s

\* A strip that forgets the leading side.
StripTrailingOnly(s) == RStrip(s)

\* str.strip(): leading and trailing whitespace removed.
Strip(s) == RStrip(LStrip(s))

\* --------------------------------------------------------------- task data

\* Test cases a task file may hold.
TestCases ==
    { [input |-> "4 2 7 11 15 9", output |-> <<"0", "1">>],
      [input |-> "2 3 3 6",       output |-> <<" ", "0", "1", "\n">>] }

SeqsUpTo(S, n) == UNION { [1..k -> S] : k \in 0..n }

\* task_data["tests"] of a task file.
Suites ==
    { s \in [visible : SeqsUpTo(TestCases, MaxTests),
             hidden  : SeqsUpTo(TestCases, MaxTests)] :
        Len(s.visible) + Len(s.hidden) <= MaxTests }

\* tasks/<task_id>.json is absent.
NoFile == [exists |-> FALSE, tests |-> [visible |-> <<>>, hidden |-> <<>>]]

\* What tasks/<task_id>.json may be when evaluate is called.
TaskFiles == {NoFile} \cup { [exists |-> TRUE, tests |-> s] : s \in Suites }

\* ---------------------------------------------------- candidate programs

\* What the submitted program does in one container: it prints the answer
\* and exits, prints a wrong answer and exits, prints the answer and is then
\* killed by the platform for exceeding the memory limit (status 137),
\* prints bytes that are no UTF-8 text and ends with that same status, or
\* never halts.
Answers  == [halts |-> TRUE,  exit |-> 0,   out |-> <<"0", "1", "\n">>, err |-> <<>>]
Wrong    == [halts |-> TRUE,  exit |-> 0,   out |-> <<"1", "0">>,       err |-> <<>>]
Killed   == [halts |-> TRUE,  exit |-> 137, out |-> <<"0", "1">>,       err |-> <<"K">>]
RawBytes == [halts |-> TRUE,  exit |-> 137, out |-> <<"0xFF">>,         err |-> <<>>]
Loops    == [halts |-> FALSE, exit |-> 0,   out |-> <<>>,               err |-> <<>>]

Behaviours == {Answers, Wrong, Killed, RawBytes, Loops}

\* The inputs of the test cases.
TestInputs == { t.input : t \in TestCases }

\* A submission of which nothing is known: any behaviour in any run.
AnyProgram == [deterministic |-> FALSE, does |-> [x \in TestInputs |-> Loops]]

\* Deterministic submissions: what the program does is a function of the
\* input it is given.
DeterministicPrograms ==
    { [deterministic |-> TRUE, does |-> f] :
        f \in { [x \in TestInputs |-> Answers],
                [x \in TestInputs |-> IF x = "2 3 3 6" THEN Wrong ELSE Answers],
                [x \in TestInputs |-> IF x = "2 3 3 6" THEN Answers ELSE Killed],
                [x \in TestInputs |-> IF x = "2 3 3 6" THEN Loops ELSE RawBytes] } }

\* A byte of the container's log that bytes.decode() rejects.
InvalidByte == "0xFF"

\* bytes.decode(): whether the log is UTF-8 text.
Decodable(bytes) == \A k \in 1..Len(bytes) : bytes[k] /= InvalidByte

\* Wall-clock times (ms) time.perf_counter() may measure for one run.
ElapsedValues == {2, 5}

\* The value of program while no container of the call is running.
NoBehaviour == [halts |-> FALSE, exit |-> 0, out |-> <<>>, err |-> <<>>]

\* runner.py 20-24: the members of the enumeration SupportedLanguage.
SupportedLanguage == {"python", "javascript", "java", "cpp"}

\* runner.py 27-48: the Language Catalog.  A command is the sequence of
\* the words of its text.
LANGUAGE_CONFIG ==
    [ python     |-> [ image     |-> "python:3.12-slim",
                       extension |-> ".py",
                       command   |-> << "cd", "/workspace", "&&", "python",
                                        "Main.py", "<", "input.txt" >> ],
      javascript |-> [ image     |-> "node:22-alpine",
                       extension |-> ".js",
                       command   |-> << "cd", "/workspace", "&&", "node",
                                        "Main.js", "<", "input.txt" >> ],
      java       |-> [ image     |-> "openjdk:21-slim",
                       extension |-> ".java",
                       command   |-> << "cd", "/workspace", "&&", "javac",
                                        "Main.java", "&&", "cat", "input.txt",
                                        "|", "java", "Main" >> ],
      cpp        |-> [ image     |-> "gcc:14",
                       extension |-> ".cpp",
                       command   |-> << "cd", "/workspace", "&&", "g++",
                                        "Main.cpp", "-O2", "-std=c++20", "&&",
                                        "cat", "input.txt", "|", "./a.out" >> ] ]

\* Language ids evaluate is called with: one of the catalog and one that is
\* not in it.
LanguageIds == {"python", "ruby"}

VARIABLES
    task_file,    \* tasks/<task_id>.json: whether it exists, and its tests
    language,     \* the language id evaluate is called with
    platform,     \* the execution platform: "up", or "down" (unreachable)
    pc,           \* position of evaluate: load, visible, hidden, done, raised
    visible,      \* evaluate's local
    hidden,       \* evaluate's local
    i,            \* index of the loop's current test (1-based)
    ev,           \* evaluate's locals all_passed, visible_results,
                  \* hidden_passed, metrics
    result,       \* what evaluate returned (<<>> before)
    error,        \* the exception evaluate raised ("" if none)
    rpc,          \* position of the run call in flight ("idle" if none)
    containers,   \* every container created so far, by creation order
    program,      \* what the submitted program does in the started container
    frame,        \* _run_container's locals exit_code, stdout, stderr,
                  \* elapsed, and the exception pending in try/finally
    run_result,   \* ExecutionResult handed back to evaluate
    calls,        \* history: run invocations started
    returned,     \* history: number of run invocations ended
    observed      \* history: the ExecutionResult of every run that returned

VARIABLES
    session_trust_scores,  \* AntiCheatService: defaultdict session -> score
    session_events,        \* AntiCheatService: defaultdict session -> events
    session_scores,        \* AntiCheatSystem: dict session -> score
    ret,                   \* what the last anti-cheat call returned
    since_bootstrap,       \* history: per bootstrapped session, the events
                           \* given to record_event since bootstrap_session
    n_events,              \* history: number of events given so far
    n_recorded             \* history: per session ever bootstrapped, the
                           \* number of record_event calls made for it
                           \* since its last bootstrap_session

antiCheatVars == << session_trust_scores, session_events, session_scores,
                    ret, since_bootstrap, n_events, n_recorded >>

VARIABLES
    run_calls,    \* concurrent run calls: arguments, position, locals
    docker,       \* the daemon's containers, by name
    tmp,          \* the temporary directories on disk, by name
    uuids,        \* number of uuid4() values drawn so far
    created,      \* history: name and call of every container created
    loop_owner    \* the call whose blocking code occupies the event loop's
                  \* thread (0: the loop is free to run any coroutine)

poolVars == << run_calls, docker, tmp, uuids, created, loop_owner >>

VARIABLES
    submission,   \* the submitted program: what it does on an input
    round,        \* 1 during the first evaluate call, 2 during a repeated one
    first_result  \* what the first evaluate call returned (<<>> before)

againVars == << submission, round, first_result >>

VARIABLES
    redis,        \* the session store: key -> hash of fields
    db,           \* the InterviewSession rows, by id
    submit        \* the submit_solution request in flight: its payload,
                  \* the handler's position and its response

VARIABLES
    ws_connections,  \* WebsocketManager._connections: session -> list object
    ws_lists,        \* the list objects of _connections, by identity
    ws_locks,        \* WebsocketManager._locks: the sessions with a lock
    sock             \* per websocket: the position of its interview_ws
                     \* handler, the handler's locals, and what its client
                     \* was sent

wsVars == << ws_connections, ws_lists, ws_locks, sock >>

serverVars == << redis, db, submit, wsVars >>

\* What an evaluate call is given and no step of it changes: its arguments,
\* the platform, and the objects it has no reference to.
givenVars == << task_file, language, platform, antiCheatVars, poolVars,
               againVars, serverVars >>

vars == << givenVars, pc, visible, hidden, i, ev, result, error, rpc,
           containers, program, frame, run_result, calls, returned, observed >>

\* ----------------------------------------------------------------- judge

\* The task_id evaluate is called with.
task_id == "two_sum"

Max(a, b) == IF b > a THEN b ELSE a

\* Success without the exit-code conjunct.
SuccessIgnoringExit(r, test) == Strip(r.stdout) = Strip(test.output)

\* judge.py 41-44: the visible loop's pass criterion.
VisibleSuccess(r, test) ==
    Strip(r.stdout) = Strip(test.output) /\ r.exit_code = 0

\* judge.py 60: the hidden loop's pass criterion.
HiddenSuccess(r, test) ==
    Strip(r.stdout) = Strip(test.output) /\ r.exit_code = 0

\* judge.py 34-37.
InitLocals ==
    [ all_passed      |-> TRUE,
      visible_results |-> <<>>,
      hidden_passed   |-> 0,
      metrics         |-> [max_elapsed_ms |-> 0] ]

\* The visible loop body with the running maximum left out.
VisibleBodyNoMax(e, test, r) ==
    [ e EXCEPT
        !.all_passed = @ /\ VisibleSuccess(r, test),
        !.visible_results =
            Append(@, [ input      |-> test.input,
                        expected   |-> test.output,
                        stdout     |-> r.stdout,
                        stderr     |-> r.stderr,
                        passed     |-> VisibleSuccess(r, test),
                        elapsed_ms |-> r.elapsed_ms ]) ]

\* The visible loop body with the entry put in front of the list.
VisibleBodyPrepend(e, test, r) ==
    [ e EXCEPT
        !.all_passed = @ /\ VisibleSuccess(r, test),
        !.metrics = [max_elapsed_ms |-> Max(@.max_elapsed_ms, r.elapsed_ms)],
        !.visible_results =
            << [ input      |-> test.input,
                 expected   |-> test.output,
                 stdout     |-> r.stdout,
                 stderr     |-> r.stderr,
                 passed     |-> VisibleSuccess(r, test),
                 elapsed_ms |-> r.elapsed_ms ] >> \o @ ]

\* judge.py 41-56: the visible loop body, given the run's ExecutionResult.
VisibleBody(e, test, r) ==
    [ e EXCEPT
        !.all_passed = @ /\ VisibleSuccess(r, test),
        !.metrics = [max_elapsed_ms |-> Max(@.max_elapsed_ms, r.elapsed_ms)],
        !.visible_results =
            Append(@, [ input      |-> test.input,
                        expected   |-> test.output,
                        stdout     |-> r.stdout,
                        stderr     |-> r.stderr,
                        passed     |-> VisibleSuccess(r, test),
                        elapsed_ms |-> r.elapsed_ms ]) ]

\* The hidden loop body without line 64.
HiddenBodyNoAllPassed(e, test, r) ==
    [ e EXCEPT
        !.hidden_passed = IF HiddenSuccess(r, test) THEN @ + 1 ELSE @,
        !.metrics = [max_elapsed_ms |-> Max(@.max_elapsed_ms, r.elapsed_ms)] ]

\* The hidden loop body counting every hidden test, passed or not.
HiddenBodyCountsAll(e, test, r) ==
    [ e EXCEPT
        !.hidden_passed = @ + 1,
        !.metrics = [max_elapsed_ms |-> Max(@.max_elapsed_ms, r.elapsed_ms)],
        !.all_passed = @ /\ HiddenSuccess(r, test) ]

\* The hidden loop body also recording the hidden test like a visible one.
HiddenBodyLeaks(e, test, r) ==
    [ e EXCEPT
        !.hidden_passed = IF HiddenSuccess(r, test) THEN @ + 1 ELSE @,
        !.metrics = [max_elapsed_ms |-> Max(@.max_elapsed_ms, r.elapsed_ms)],
        !.all_passed = @ /\ HiddenSuccess(r, test),
        !.visible_results =
            Append(@, [ input      |-> test.input,
                        expected   |-> test.output,
                        stdout     |-> r.stdout,
                        stderr     |-> r.stderr,
                        passed     |-> HiddenSuccess(r, test),
                        elapsed_ms |-> r.elapsed_ms ]) ]

\* judge.py 60-64: the hidden loop body, given the run's ExecutionResult.
HiddenBody(e, test, r) ==
    [ e EXCEPT
        !.hidden_passed = IF HiddenSuccess(r, test) THEN @ + 1 ELSE @,
        !.metrics = [max_elapsed_ms |-> Max(@.max_elapsed_ms, r.elapsed_ms)],
        !.all_passed = @ /\ HiddenSuccess(r, test) ]

\* judge.py 66-72: the dictionary evaluate returns.
ResultDict(e) ==
    [ task_id             |-> task_id,
      passed              |-> e.all_passed,
      visible_tests       |-> e.visible_results,
      hidden_tests_passed |-> e.hidden_passed,
      metrics             |-> e.metrics ]

\* ---------------------------------------------------------------- runner

\* The exception pending in try/finally, if any.
NoException == "None"

\* runner.py 123-125, and no exception pending.
InitFrame ==
    [ exit_code |-> 0, stdout |-> <<>>, stderr |-> <<>>, elapsed |-> 0,
      exc |-> NoException ]

\* runner.py 141-147.
ExecutionResult(f) ==
    [ stdout       |-> f.stdout,
      stderr       |-> f.stderr,
      exit_code    |-> f.exit_code,
      elapsed_ms   |-> f.elapsed,
      memory_bytes |-> 0 ]

NoRunResult == ExecutionResult(InitFrame)

\* The container of the run in flight: the one created last.
cur == Len(containers)

\* A dictionary without keys.
EmptyDict == [k \in {} |-> 0]

\* What a call that returns None leaves in ret.
NoReturn == [kind |-> "None"]

\* anticheat.py 19-21, 78-79: both anti-cheat objects as constructed.
AntiCheatInit ==
    /\ session_trust_scores = EmptyDict
    /\ session_events = EmptyDict
    /\ session_scores = EmptyDict
    /\ ret = NoReturn
    /\ since_bootstrap = EmptyDict
    /\ n_events = 0
    /\ n_recorded = EmptyDict

\* No concurrent run call has been made.
NoRunCalls ==
    /\ run_calls = EmptyDict
    /\ docker = EmptyDict
    /\ tmp = EmptyDict
    /\ uuids = 0
    /\ created = <<>>
    /\ loop_owner = 0

\* No evaluate call has taken a step and no run is in flight.
EvaluateAtStart ==
    /\ pc = "load"
    /\ visible = <<>>
    /\ hidden = <<>>
    /\ i = 1
    /\ ev = InitLocals
    /\ result = <<>>
    /\ error = ""
    /\ rpc = "idle"
    /\ containers = <<>>
    /\ program = NoBehaviour
    /\ frame = InitFrame
    /\ run_result = NoRunResult
    /\ calls = <<>>
    /\ returned = 0
    /\ observed = <<>>

\* One evaluate call, of a submission of which nothing is known.
OneEvaluation ==
    /\ submission = AnyProgram
    /\ round = 1
    /\ first_result = <<>>

\* No request has reached the server.
NoRequest == [at |-> "none"]

ServerAtStart ==
    /\ redis = EmptyDict
    /\ db = EmptyDict
    /\ submit = NoRequest
    /\ ws_connections = EmptyDict
    /\ ws_lists = <<>>
    /\ ws_locks = {}
    /\ sock = EmptyDict

Init ==
    /\ task_file \in TaskFiles
    /\ language \in LanguageIds
    /\ platform \in {"up", "down"}
    /\ EvaluateAtStart
    /\ AntiCheatInit
    /\ NoRunCalls
    /\ OneEvaluation
    /\ ServerAtStart

runnerVars == << rpc, containers, program, frame, run_result, calls,
                 returned, observed >>
judgeVars  == << givenVars, pc, visible, hidden, i, ev, result, error >>

\* The variables of evaluate and run, which the anti-cheat calls leave alone.
evaluateVars == << task_file, language, platform, pc, visible, hidden, i, ev,
                   result, error, runnerVars, poolVars, againVars,
                   serverVars >>

\* ------------------------------------------------------ evaluate: actions

\* A missing task file taken for a task without test cases.
EvaluateTaskNotFoundIgnored ==
    /\ pc = "load"
    /\ ~task_file.exists
    /\ pc' = "visible"
    /\ error' = ""
    /\ UNCHANGED << givenVars, visible, hidden, i, ev, result >>
    /\ UNCHANGED runnerVars

\* judge.py 27-29: the task file does not exist.
EvaluateTaskNotFound ==
    /\ pc = "load"
    /\ ~task_file.exists
    /\ pc' = "raised"
    /\ error' = "FileNotFoundError"
    /\ UNCHANGED << givenVars, visible, hidden, i, ev, result >>
    /\ UNCHANGED runnerVars

\* An evaluate whose accumulators live on between calls.
EvaluateLoadTaskKeepsLocals ==
    /\ pc = "load"
    /\ task_file.exists
    /\ visible' = task_file.tests["visible"]
    /\ hidden' = task_file.tests["hidden"]
    /\ ev' = ev
    /\ i' = 1
    /\ pc' = "visible"
    /\ UNCHANGED << givenVars, result, error >>
    /\ UNCHANGED runnerVars

\* judge.py 30-37: the suite is loaded and the locals are initialised.
EvaluateLoadTask ==
    /\ pc = "load"
    /\ task_file.exists
    /\ visible' = task_file.tests["visible"]
    /\ hidden' = task_file.tests["hidden"]
    /\ ev' = InitLocals
    /\ i' = 1
    /\ pc' = "visible"
    /\ UNCHANGED << givenVars, result, error >>
    /\ UNCHANGED runnerVars

\* runner.py 64-94: run is entered for one test case; the call is awaited,
\* so evaluate does not move before it ended.
RunCall(list, test) ==
    /\ rpc = "idle"
    /\ language \in DOMAIN LANGUAGE_CONFIG
    /\ rpc' = "create"
    /\ frame' = InitFrame
    /\ calls' = Append(calls, [list |-> list, index |-> i, input |-> test.input])
    /\ UNCHANGED << containers, program, run_result, returned, observed >>
    /\ UNCHANGED judgeVars

\* runner.py 67: LANGUAGE_CONFIG[language] raises KeyError for a language id
\* that is no key of the catalog; evaluate lets it through.
RunUnsupportedLanguage ==
    /\ pc \in {"visible", "hidden"}
    /\ rpc = "idle"
    /\ i <= Len(IF pc = "visible" THEN visible ELSE hidden)
    /\ language \notin DOMAIN LANGUAGE_CONFIG
    /\ calls' = Append(calls,
            [ list  |-> pc, index |-> i,
              input |-> (IF pc = "visible" THEN visible ELSE hidden)[i].input ])
    /\ returned' = returned + 1
    /\ pc' = "raised"
    /\ error' = "KeyError"
    /\ UNCHANGED << givenVars, visible, hidden, i, ev, result >>
    /\ UNCHANGED << rpc, containers, program, frame, run_result, observed >>

\* A visible loop that starts the next run without awaiting the one in flight.
VisibleCallNotAwaited ==
    /\ pc = "visible"
    /\ Len(calls) < Len(visible)
    /\ rpc' = "create"
    /\ frame' = InitFrame
    /\ calls' = Append(calls, [list |-> "visible", index |-> Len(calls) + 1,
                               input |-> visible[Len(calls) + 1].input])
    /\ UNCHANGED << containers, program, run_result, returned, observed >>
    /\ UNCHANGED judgeVars

\* judge.py 39-40.
VisibleCall ==
    /\ pc = "visible"
    /\ i <= Len(visible)
    /\ RunCall("visible", visible[i])

\* A visible loop that leaves at the first test case that failed.
VisibleRecordStopsOnFailure ==
    /\ pc = "visible"
    /\ rpc = "returned"
    /\ ev' = VisibleBody(ev, visible[i], run_result)
    /\ i' = IF VisibleSuccess(run_result, visible[i]) THEN i + 1
            ELSE Len(visible) + 1
    /\ rpc' = "idle"
    /\ UNCHANGED << givenVars, pc, visible, hidden, result, error >>
    /\ UNCHANGED << containers, program, frame, run_result, calls, returned,
                    observed >>

\* judge.py 41-56, after run returned.
VisibleRecord ==
    /\ pc = "visible"
    /\ rpc = "returned"
    /\ ev' = VisibleBody(ev, visible[i], run_result)
    /\ i' = i + 1
    /\ rpc' = "idle"
    /\ UNCHANGED << givenVars, pc, visible, hidden, result, error >>
    /\ UNCHANGED << containers, program, frame, run_result, calls, returned,
                    observed >>

\* judge.py 39, 58: the visible loop is exhausted.
VisibleExit ==
    /\ pc = "visible"
    /\ rpc = "idle"
    /\ i > Len(visible)
    /\ pc' = "hidden"
    /\ i' = 1
    /\ UNCHANGED << givenVars, visible, hidden, ev, result, error >>
    /\ UNCHANGED runnerVars

\* judge.py 58-59.
HiddenCall ==
    /\ pc = "hidden"
    /\ i <= Len(hidden)
    /\ RunCall("hidden", hidden[i])

\* judge.py 60-64, after run returned.
HiddenRecord ==
    /\ pc = "hidden"
    /\ rpc = "returned"
    /\ ev' = HiddenBody(ev, hidden[i], run_result)
    /\ i' = i + 1
    /\ rpc' = "idle"
    /\ UNCHANGED << givenVars, pc, visible, hidden, result, error >>
    /\ UNCHANGED << containers, program, frame, run_result, calls, returned,
                    observed >>

\* judge.py 58, 66-72: the hidden loop is exhausted and the result returned.
EvaluateReturn ==
    /\ pc = "hidden"
    /\ rpc = "idle"
    /\ i > Len(hidden)
    /\ result' = ResultDict(ev)
    /\ pc' = "done"
    /\ UNCHANGED << givenVars, visible, hidden, i, ev, error >>
    /\ UNCHANGED runnerVars

\* A failed run taken for a failed test case: the exception is absorbed and
\* the loop goes on.
RunRaisesAbsorbed ==
    /\ rpc' = "idle"
    /\ frame' = InitFrame
    /\ returned' = returned + 1
    /\ pc' = pc
    /\ i' = i + 1
    /\ ev' = [ev EXCEPT !.all_passed = FALSE]
    /\ error' = error
    /\ UNCHANGED << givenVars, visible, hidden, result >>
    /\ UNCHANGED << run_result, calls, observed >>

\* An exception leaves _run_container (its locals are gone), run_in_executor
\* re-raises it in run, and evaluate (which has no try around lines 40 and
\* 59) lets it through.
RunRaises ==
    /\ rpc' = "idle"
    /\ frame' = InitFrame
    /\ returned' = returned + 1
    /\ pc' = "raised"
    /\ i' = i
    /\ ev' = ev
    /\ error' = "RunnerError"
    /\ UNCHANGED << givenVars, visible, hidden, result >>
    /\ UNCHANGED << run_result, calls, observed >>

\* -------------------------------------------------- _run_container: actions

SetStatus(st) == [containers EXCEPT ![cur].status = st]

\* container.remove(force=True): the container is gone, or the platform
\* failed and it is still there.
RemoveAttempt(ok) ==
    IF ok THEN SetStatus("removed")
          ELSE [containers EXCEPT ![cur].remove_failed = TRUE]

\* runner.py 103-113: containers.create under a fresh uuid4 name.
Create ==
    /\ rpc = "create"
    /\ platform = "up"
    /\ containers' = Append(containers,
            [ name             |-> Len(containers) + 1,
              status           |-> "created",
              archive          |-> FALSE,
              mem_limit        |-> "512m",
              network_disabled |-> TRUE,
              remove_failed    |-> FALSE ])
    /\ rpc' = "put_archive"
    /\ UNCHANGED << program, frame, run_result, calls, returned, observed >>
    /\ UNCHANGED judgeVars

\* runner.py 104: containers.create raises; no container exists.
CreateFails ==
    /\ rpc = "create"
    /\ RunRaises
    /\ UNCHANGED << containers, program >>

\* A put_archive that injects nothing.
PutArchiveSkipped ==
    /\ rpc = "put_archive"
    /\ containers' = containers
    /\ rpc' = "start"
    /\ UNCHANGED << program, frame, run_result, calls, returned, observed >>
    /\ UNCHANGED judgeVars

\* runner.py 115-116.
PutArchive ==
    /\ rpc = "put_archive"
    /\ containers' = [containers EXCEPT ![cur].archive = TRUE]
    /\ rpc' = "start"
    /\ UNCHANGED << program, frame, run_result, calls, returned, observed >>
    /\ UNCHANGED judgeVars

\* runner.py 117-119: put_archive raises; remove is attempted, then an
\* exception (put_archive's, or remove's own) leaves the function.
PutArchiveFails ==
    /\ rpc = "put_archive"
    /\ \E ok \in BOOLEAN : containers' = RemoveAttempt(ok)
    /\ RunRaises
    /\ UNCHANGED program

\* runner.py 121: the submitted program starts running.
Start ==
    /\ rpc = "start"
    /\ containers' = SetStatus("running")
    /\ program' \in IF submission.deterministic
                     THEN {submission.does[calls[Len(calls)].input]}
                     ELSE Behaviours
    /\ rpc' = "wait"
    /\ UNCHANGED << frame, run_result, calls, returned, observed >>
    /\ UNCHANGED judgeVars

\* runner.py 121: start raises, outside of any try.
StartFails ==
    /\ rpc = "start"
    /\ RunRaises
    /\ UNCHANGED << containers, program >>

\* runner.py 127: wait (no timeout) returns once the program has halted.
Wait ==
    /\ rpc = "wait"
    /\ program.halts
    /\ frame' = [frame EXCEPT !.exit_code = program.exit]
    /\ containers' = SetStatus("exited")
    /\ rpc' = "logs"
    /\ UNCHANGED << program, run_result, calls, returned, observed >>
    /\ UNCHANGED judgeVars

\* runner.py 127, 134: wait raises something that is no ContainerError.
WaitFails ==
    /\ rpc = "wait"
    /\ frame' = [frame EXCEPT !.exc = "APIError"]
    /\ rpc' = "finally"
    /\ UNCHANGED << containers, program, run_result, calls, returned, observed >>
    /\ UNCHANGED judgeVars

\* runner.py 128-129.
Logs ==
    /\ rpc = "logs"
    /\ Decodable(program.out)
    /\ Decodable(program.err)
    /\ frame' = [frame EXCEPT !.stdout = program.out,
                              !.stderr = program.err]
    /\ rpc' = "finally"
    /\ UNCHANGED << containers, program, run_result, calls, returned, observed >>
    /\ UNCHANGED judgeVars

\* runner.py 128-129, 134: the platform's logs call raises, in the first or
\* the second statement.
LogsFails ==
    /\ rpc = "logs"
    /\ \E second \in BOOLEAN :
          /\ second => Decodable(program.out)
          /\ frame' = [frame EXCEPT
                         !.stdout = IF second THEN program.out ELSE @,
                         !.exc = "APIError"]
    /\ rpc' = "finally"
    /\ UNCHANGED << containers, program, run_result, calls, returned, observed >>
    /\ UNCHANGED judgeVars

\* runner.py 128-129, 134: the program's output is no UTF-8 text and
\* decode raises UnicodeDecodeError, in the first or the second statement.
LogsDecodeError ==
    /\ rpc = "logs"
    /\ ~(Decodable(program.out) /\ Decodable(program.err))
    /\ frame' = [frame EXCEPT
                    !.stdout = IF Decodable(program.out) THEN program.out
                               ELSE @,
                    !.exc = "UnicodeDecodeError"]
    /\ rpc' = "finally"
    /\ UNCHANGED << containers, program, run_result, calls, returned, observed >>
    /\ UNCHANGED judgeVars

\* runner.py 130-133: a ContainerError raised in the try block is caught; it
\* carries the non-zero exit status of the container's program.
CatchContainerError ==
    /\ rpc \in {"wait", "logs"}
    /\ program.halts
    /\ program.exit /= 0
    /\ frame' = [frame EXCEPT !.exit_code = program.exit, !.stdout = <<>>,
                              !.stderr = <<"E">>]
    /\ rpc' = "finally"
    /\ UNCHANGED << containers, program, run_result, calls, returned, observed >>
    /\ UNCHANGED judgeVars

\* A finally block that lets the exception of a failed remove through.
FinallyReturnRemoveRaises ==
    /\ rpc = "finally"
    /\ frame.exc = NoException
    /\ \/ /\ \E t \in ElapsedValues :
                run_result' = ExecutionResult([frame EXCEPT !.elapsed = t])
          /\ containers' = RemoveAttempt(TRUE)
          /\ observed' = Append(observed, [ list  |-> calls[Len(calls)].list,
                                            index |-> calls[Len(calls)].index,
                                            r     |-> run_result' ])
          /\ frame' = InitFrame
          /\ program' = NoBehaviour
          /\ rpc' = "returned"
          /\ returned' = returned + 1
          /\ UNCHANGED calls
          /\ UNCHANGED judgeVars
       \/ /\ containers' = RemoveAttempt(FALSE)
          /\ program' = NoBehaviour
          /\ RunRaises

\* runner.py 134-147: elapsed is taken, remove is attempted (a failure is
\* swallowed), and the ExecutionResult is returned.
FinallyReturn ==
    /\ rpc = "finally"
    /\ frame.exc = NoException
    /\ \E t \in ElapsedValues, ok \in BOOLEAN :
          /\ run_result' = ExecutionResult([frame EXCEPT !.elapsed = t])
          /\ containers' = RemoveAttempt(ok)
    /\ observed' = Append(observed, [ list  |-> calls[Len(calls)].list,
                                      index |-> calls[Len(calls)].index,
                                      r     |-> run_result' ])
    /\ frame' = InitFrame
    /\ program' = NoBehaviour
    /\ rpc' = "returned"
    /\ returned' = returned + 1
    /\ UNCHANGED calls
    /\ UNCHANGED judgeVars

\* runner.py 134-139: the same finally block, with an exception pending
\* that leaves the function after it.
FinallyRaise ==
    /\ rpc = "finally"
    /\ frame.exc /= NoException
    /\ \E ok \in BOOLEAN : containers' = RemoveAttempt(ok)
    /\ program' = NoBehaviour
    /\ RunRaises

\* ---------------------------------------------------------- specification

Next ==
    \/ EvaluateTaskNotFound
    \/ EvaluateLoadTask
    \/ VisibleCall
    \/ VisibleRecord
    \/ VisibleExit
    \/ HiddenCall
    \/ HiddenRecord
    \/ EvaluateReturn
    \/ RunUnsupportedLanguage
    \/ Create
    \/ CreateFails
    \/ PutArchive
    \/ PutArchiveFails
    \/ Start
    \/ StartFails
    \/ Wait
    \/ WaitFails
    \/ Logs
    \/ LogsFails
    \/ LogsDecodeError
    \/ CatchContainerError
    \/ FinallyReturn
    \/ FinallyRaise

Spec == Init /\ [][Next]_vars

\* The steps the interpreter takes by itself once they are possible; a
\* failure of the platform is possible but never forced.
Progress ==
    \/ EvaluateTaskNotFound
    \/ EvaluateLoadTask
    \/ VisibleCall
    \/ VisibleRecord
    \/ VisibleExit
    \/ HiddenCall
    \/ HiddenRecord
    \/ EvaluateReturn
    \/ RunUnsupportedLanguage
    \/ Create
    \/ PutArchive
    \/ Start
    \/ Wait
    \/ Logs
    \/ LogsDecodeError
    \/ FinallyReturn
    \/ FinallyRaise

SpecLive == Init /\ [][Next]_vars /\ WF_vars(Progress)

\* ============================================================ properties

\* The text between the first and the last character of s that is no
\* whitespace (the empty text if there is none), said without recursion.
Trimmed(s) ==
    LET Inner == { k \in 1..Len(s) : s[k] \notin Whitespace }
    IN  IF Inner = {} THEN <<>>
        ELSE LET first == CHOOSE k \in Inner : \A m \in Inner : k <= m
                 last  == CHOOSE k \in Inner : \A m \in Inner : m <= k
             IN  SubSeq(s, first, last)

TrimmedEqual(x, y) == Trimmed(x) = Trimmed(y)

\* The specification's pass criterion for one test case and one run.
Passes(r, test) == TrimmedEqual(r.stdout, test.output) /\ r.exit_code = 0

\* The test case a run was made for, in the task file's stored lists.
TestOf(o) == task_file.tests[o.list][o.index]

\* The runs whose result evaluate has taken in: all that returned, but for
\* one that returned and whose loop body has not run yet.
Seen ==
    IF rpc = "returned" THEN SubSeq(observed, 1, Len(observed) - 1)
    ELSE observed

SeenOf(list) == { k \in 1..Len(Seen) : Seen[k].list = list }

nVisible == Len(task_file.tests["visible"])
nHidden  == Len(task_file.tests["hidden"])

\* C1: when evaluate returns, `passed` is true iff every visible test case
\* passed and every hidden test case passed (each test case was run and met
\* the pass criterion); a list with no test case is satisfied.
C1_PassedIffAllPassed ==
    pc = "done" =>
        /\ Len(observed) = nVisible + nHidden
        /\ result.passed <=>
              /\ \A j \in 1..nVisible :
                    \E k \in SeenOf("visible") :
                        Seen[k].index = j /\ Passes(Seen[k].r, TestOf(Seen[k]))
              /\ \A j \in 1..nHidden :
                    \E k \in SeenOf("hidden") :
                        Seen[k].index = j /\ Passes(Seen[k].r, TestOf(Seen[k]))

\* C1 witness: a task without visible tests whose hidden tests all passed
\* is reported as passed.
C1_Witness ==
    /\ pc = "done"
    /\ nVisible = 0
    /\ nHidden >= 1
    /\ result.passed

\* C2: once a run call has ended (returned or raised), every container it
\* created has been removed, unless the platform refused the removal itself.
C2_ContainerRemovedOnEveryExit ==
    rpc \in {"idle", "returned"} =>
        \A k \in 1..Len(containers) :
            containers[k].status = "removed" \/ containers[k].remove_failed

\* C3: evaluate never lets an exception of the Runner through: a failed run
\* is a failed test case and the evaluation goes on to a JudgeResult.
C3_RunnerErrorNotPropagated ==
    pc = "raised" => error /= "RunnerError"

\* C4: every run call that was entered eventually ends (returns or raises),
\* whatever the submitted program does.
C4_RunEventuallyEnds ==
    (rpc \notin {"idle", "returned"}) ~> (rpc \in {"idle", "returned"})

\* C5: a test case, visible or hidden, is marked passed iff the trimmed
\* stdout equals the trimmed expected output and the exit code is zero:
\* every visible entry's flag is that criterion, and the hidden count
\* counts exactly the hidden runs that meet it.
C5_PassCriterion ==
    /\ Len(ev.visible_results) = Cardinality(SeenOf("visible"))
    /\ \A k \in SeenOf("visible") :
          ev.visible_results[k].passed = Passes(Seen[k].r, TestOf(Seen[k]))
    /\ ev.hidden_passed =
          Cardinality({ k \in SeenOf("hidden") :
                          Passes(Seen[k].r, TestOf(Seen[k])) })

\* C5 witness: a visible and a hidden run printed the expected output with
\* other surrounding whitespace, one exiting with status 0 and one not.
C5_Witness ==
    /\ pc = "done"
    /\ \E k \in SeenOf("visible") :
          /\ Seen[k].r.stdout /= TestOf(Seen[k]).output
          /\ Seen[k].r.exit_code = 0
          /\ ev.visible_results[k].passed
    /\ \E k \in SeenOf("hidden") :
          /\ TrimmedEqual(Seen[k].r.stdout, TestOf(Seen[k]).output)
          /\ Seen[k].r.exit_code /= 0
    /\ ev.hidden_passed = 0

\* C6: hidden_passed is at every point the number of hidden test cases run
\* so far that passed; it never exceeds the number of hidden test cases
\* run, nor, in the result, the number of hidden test cases of the task.
C6_HiddenPassedCount ==
    /\ ev.hidden_passed =
          Cardinality({ k \in SeenOf("hidden") :
                          Passes(Seen[k].r, TestOf(Seen[k])) })
    /\ ev.hidden_passed <= Cardinality(SeenOf("hidden"))
    /\ Cardinality(SeenOf("hidden")) <= nHidden
    /\ pc = "done" => result.hidden_tests_passed <= nHidden

\* C6 witness: two hidden test cases were run, one passed and one failed.
C6_Witness ==
    /\ pc = "done"
    /\ nHidden >= 2
    /\ result.hidden_tests_passed = 1

\* The elapsed times of the runs evaluate has taken in.
SeenElapsed == { Seen[k].r.elapsed_ms : k \in 1..Len(Seen) }

\* C7: metrics.max_elapsed_ms is, after every run taken in, the maximum of
\* the elapsed times observed so far in the call (0 before the first); the
\* returned value is that maximum, never below a visible entry's elapsed_ms.
C7_MaxElapsedIsRunningMaximum ==
    /\ IF SeenElapsed = {}
       THEN ev.metrics.max_elapsed_ms = 0
       ELSE /\ ev.metrics.max_elapsed_ms \in SeenElapsed
            /\ \A e \in SeenElapsed : e <= ev.metrics.max_elapsed_ms
    /\ pc = "done" =>
          /\ result.metrics.max_elapsed_ms = ev.metrics.max_elapsed_ms
          /\ \A k \in 1..Len(result.visible_tests) :
                result.visible_tests[k].elapsed_ms
                    <= result.metrics.max_elapsed_ms

\* C7 witness: the slowest run was a visible one and a faster hidden run
\* followed it.
C7_Witness ==
    /\ pc = "done"
    /\ Len(observed) = 2
    /\ observed[1].list = "visible"
    /\ observed[2].list = "hidden"
    /\ observed[1].r.elapsed_ms > observed[2].r.elapsed_ms
    /\ result.metrics.max_elapsed_ms = observed[1].r.elapsed_ms

\* C8: the returned visible_tests has one entry per visible test case, in
\* the stored order; entry j echoes test j's input and expected output and
\* the stdout, stderr, pass flag and elapsed_ms of the run made for test j.
C8_VisibleTestsEchoInOrder ==
    pc = "done" =>
        /\ Len(result.visible_tests) = nVisible
        /\ \A j \in 1..nVisible :
              \E k \in SeenOf("visible") :
                  /\ Seen[k].index = j
                  /\ result.visible_tests[j] =
                        [ input      |-> task_file.tests["visible"][j].input,
                          expected   |-> task_file.tests["visible"][j].output,
                          stdout     |-> Seen[k].r.stdout,
                          stderr     |-> Seen[k].r.stderr,
                          passed     |-> Passes(Seen[k].r, TestOf(Seen[k])),
                          elapsed_ms |-> Seen[k].r.elapsed_ms ]

\* C8 witness: two visible test cases with different inputs whose runs
\* printed different output.
C8_Witness ==
    /\ pc = "done"
    /\ nVisible = 2
    /\ result.visible_tests[1].input /= result.visible_tests[2].input
    /\ result.visible_tests[1].stdout /= result.visible_tests[2].stdout
    /\ result.visible_tests[1].passed /= result.visible_tests[2].passed

\* All that the result may tell of the runs: every visible run in full, and
\* of a hidden run whether it passed and how long it took.
Disclosed ==
    [ k \in 1..Len(Seen) |->
        IF Seen[k].list = "visible"
        THEN [ list |-> "visible", test |-> TestOf(Seen[k]), r |-> Seen[k].r ]
        ELSE [ list       |-> "hidden",
               passed     |-> Passes(Seen[k].r, TestOf(Seen[k])),
               elapsed_ms |-> Seen[k].r.elapsed_ms ] ]

DisclosedOf(d, list) == { k \in 1..Len(d) : d[k].list = list }

RECURSIVE MaxElapsedOf(_)
MaxElapsedOf(d) ==
    IF d = <<>> THEN 0
    ELSE LET m == MaxElapsedOf(Tail(d))
             e == IF Head(d).list = "visible" THEN Head(d).r.elapsed_ms
                  ELSE Head(d).elapsed_ms
         IN  IF e > m THEN e ELSE m

\* The result as a function of what is disclosed, and of nothing else.
ResultFrom(d) ==
    LET vis == SubSeq(d, 1, Cardinality(DisclosedOf(d, "visible")))
    IN  [ task_id |-> task_id,
          passed  |->
              /\ \A k \in DisclosedOf(d, "visible") : Passes(d[k].r, d[k].test)
              /\ \A k \in DisclosedOf(d, "hidden") : d[k].passed,
          visible_tests |->
              [ k \in 1..Len(vis) |->
                  [ input      |-> vis[k].test.input,
                    expected   |-> vis[k].test.output,
                    stdout     |-> vis[k].r.stdout,
                    stderr     |-> vis[k].r.stderr,
                    passed     |-> Passes(vis[k].r, vis[k].test),
                    elapsed_ms |-> vis[k].r.elapsed_ms ] ],
          hidden_tests_passed |->
              Cardinality({ k \in DisclosedOf(d, "hidden") : d[k].passed }),
          metrics |-> [ max_elapsed_ms |-> MaxElapsedOf(d) ] ]

\* C9: the result is a function of the visible tests and runs and, for the
\* hidden runs, of their pass outcomes and elapsed times alone.  Two
\* evaluations that differ only in hidden inputs, expected outputs, stdout
\* or stderr, with the same hidden pass outcomes and elapsed times, have
\* the same Disclosed and so return identical results; no hidden input,
\* expected output, stdout or stderr is in the result.
C9_HiddenContentNotInResult ==
    pc = "done" => result = ResultFrom(Disclosed)

\* C9 witness: two hidden test cases with different inputs and expected
\* outputs were run and printed different output, one passing.
C9_Witness ==
    /\ pc = "done"
    /\ nHidden = 2
    /\ TestOf(Seen[1]) /= TestOf(Seen[2])
    /\ Seen[1].r.stdout /= Seen[2].r.stdout
    /\ result.hidden_tests_passed = 1

\* The run invocations of a complete evaluation, in the order the task
\* file stores the test cases: the visible list, then the hidden list.
StoredOrder ==
    [ j \in 1..nVisible |->
        [ list |-> "visible", index |-> j,
          input |-> task_file.tests["visible"][j].input ] ]
    \o
    [ j \in 1..nHidden |->
        [ list |-> "hidden", index |-> j,
          input |-> task_file.tests["hidden"][j].input ] ]

\* C10: the runs of one evaluate call happen one after another (at most
\* one is in flight, and a run starts only when all earlier ones ended),
\* visible before hidden, each list in stored order.
C10_SequentialInStoredOrder ==
    /\ Len(calls) <= Len(StoredOrder)
    /\ calls = SubSeq(StoredOrder, 1, Len(calls))
    /\ Len(calls) - returned \in {0, 1}
    /\ (rpc \in {"idle", "returned"}) <=> (Len(calls) = returned)
    /\ pc = "done" => calls = StoredOrder

\* C10 witness: a finished evaluation that ran a visible and a hidden test.
C10_Witness ==
    /\ pc = "done"
    /\ nVisible >= 1
    /\ nHidden >= 1
    /\ returned = Len(StoredOrder)

\* The phases of evaluate, in the order they are gone through.
PhaseRank(p) ==
    CASE p = "load"    -> 0
      [] p = "visible" -> 1
      [] p = "hidden"  -> 2
      [] p = "done"    -> 3
      [] OTHER         -> 4

\* The run invocations made for test case j of a list.
CallsFor(list, j) ==
    { k \in 1..Len(calls) : calls[k].list = list /\ calls[k].index = j }

\* C11: evaluate goes through Loading Task, Running Visible, Running Hidden
\* and Aggregated in that order, one phase at a time and never back (an
\* exception leaves from any phase); no test case is given to the Runner
\* twice; taking in a run's result, failed or not, moves on to the next test
\* case of the same list; and a completed evaluation has invoked the Runner
\* exactly once per test case, len(visible) + len(hidden) times in all.
C11_PhasesInOrderOneRunPerTest ==
    /\ [][ /\ pc' /= pc =>
                 pc' = "raised" \/ PhaseRank(pc') = PhaseRank(pc) + 1
           /\ (rpc = "returned" /\ rpc' = "idle") =>
                 pc' = pc /\ i' = i + 1 /\ calls' = calls ]_vars
    /\ [](/\ \A j \in 1..nVisible : Cardinality(CallsFor("visible", j)) <= 1
          /\ \A j \in 1..nHidden : Cardinality(CallsFor("hidden", j)) <= 1
          /\ pc = "done" =>
                /\ \A j \in 1..nVisible :
                      Cardinality(CallsFor("visible", j)) = 1
                /\ \A j \in 1..nHidden :
                      Cardinality(CallsFor("hidden", j)) = 1
                /\ Len(calls) = nVisible + nHidden
                /\ returned = nVisible + nHidden)

\* C11 witness: a completed evaluation whose first visible test case failed
\* and whose later test cases, visible and hidden, were run all the same.
C11_Witness ==
    /\ pc = "done"
    /\ nVisible >= 1
    /\ nHidden >= 1
    /\ ~result.visible_tests[1].passed
    /\ Len(calls) = nVisible + nHidden

\* A step in which the execution platform fails an operation of the run.
PlatformFailure ==
    \/ CreateFails
    \/ PutArchiveFails
    \/ StartFails
    \/ WaitFails
    \/ LogsFails

\* The run in flight ends in this step by raising.
RunRaisesNow == returned' = returned + 1 /\ error' = "RunnerError"

\* C12: a submitted program's non-zero exit is no exception.  A run whose
\* program halted returns one ExecutionResult carrying the program's exit
\* status; evaluate takes a non-zero result in as a failed test case and
\* goes on with the next one; and an exception becomes pending in a run, or
\* leaves it, only in or after a step in which the platform failed.
C12_NonZeroExitIsNotAnException ==
    [][ /\ (rpc = "finally" /\ rpc' = "returned") =>
              /\ run_result'.exit_code = program.exit
              /\ Len(observed') = Len(observed) + 1
        /\ (rpc = "returned" /\ run_result.exit_code /= 0 /\ rpc' = "idle") =>
              /\ pc' = pc
              /\ i' = i + 1
              /\ ~ev'.all_passed
              /\ ev'.hidden_passed = ev.hidden_passed
              /\ pc = "visible" =>
                    ~ev'.visible_results[Len(ev'.visible_results)].passed
        /\ frame'.exc \notin {NoException, frame.exc} => PlatformFailure
        /\ RunRaisesNow => PlatformFailure \/ frame.exc = "APIError" ]_vars

\* C13: an evaluate call whose task_id names no stored task ends by raising
\* the task-not-found error and nothing else: it returns no result, invokes
\* the Runner not once and no container is ever created.
C13_TaskNotFoundBeforeAnyRun ==
    ~task_file.exists =>
        /\ pc \in {"load", "raised"}
        /\ pc = "raised" => error = "FileNotFoundError"
        /\ result = <<>>
        /\ calls = <<>>
        /\ rpc = "idle"
        /\ containers = <<>>

\* C13 witness: the call on a missing task has raised.
C13_Witness ==
    /\ ~task_file.exists
    /\ pc = "raised"
    /\ error = "FileNotFoundError"
    /\ calls = <<>>
    /\ containers = <<>>

\* C14: an evaluate call with a language id that is not in the Language
\* Catalog, on any existing task, creates no container, gets no
\* ExecutionResult from the Runner and returns no JudgeResult.
C14_UnsupportedLanguageRejected ==
    (task_file.exists /\ language \notin DOMAIN LANGUAGE_CONFIG) =>
        /\ containers = <<>>
        /\ rpc = "idle"
        /\ observed = <<>>
        /\ pc /= "done"
        /\ result = <<>>

\* C17, as stated: when the execution platform is entirely unavailable, an
\* evaluate call never returns a JudgeResult (its caller gets an error).
C17_PlatformDownAlwaysAnError ==
    platform = "down" => pc /= "done"

\* C17, amended: when the execution platform is entirely unavailable, no
\* container is created and no run returns; an evaluate call on a task with
\* at least one test case returns no JudgeResult, so never one with passed
\* false and every test failed standing in for the failure; the only result
\* returned is that of a task without test cases, which needs no run and
\* passes.
C17_PlatformDownNoStandIn ==
    platform = "down" =>
        /\ containers = <<>>
        /\ observed = <<>>
        /\ pc = "done" => nVisible + nHidden = 0 /\ result.passed
        /\ pc = "raised" => error /= ""

\* C17 witness: with the platform down, the first run of an evaluation
\* raised and evaluate let the exception through to its caller.
C17_Witness ==
    /\ platform = "down"
    /\ nVisible + nHidden >= 1
    /\ pc = "raised"
    /\ error = "RunnerError"
    /\ Len(calls) = 1
    /\ result = <<>>

\* How far a container has come: created, archive injected, started,
\* waited for, removed.
Stage(c) ==
    IF c.status = "removed" THEN 5
    ELSE IF c.status = "exited" THEN 4
    ELSE IF c.status = "running" THEN 3
    ELSE IF c.archive THEN 2 ELSE 1

\* A step in which container.remove is called on container k.
RemoveCalled(k) ==
    \/ containers'[k].status = "removed" /\ containers[k].status /= "removed"
    \/ containers'[k].remove_failed /\ ~containers[k].remove_failed

\* C22: every container goes through create, inject archive, start, wait,
\* read logs, remove in that order.  A container that is running or has
\* exited holds the archive; start is called on a created container with
\* the archive in it; the logs are read from a container that wait returned
\* for; remove is called on the container of the call in flight only, after
\* the logs were read or after put_archive, wait or the reading of the logs
\* raised; and no operation is repeated or undone.
C22_PlatformOperationsInOrder ==
    /\ [](\A k \in 1..Len(containers) :
            containers[k].status \in {"running", "exited"}
               => containers[k].archive)
    /\ [](rpc = "start" => Stage(containers[cur]) = 2)
    /\ [](rpc = "wait" => Stage(containers[cur]) = 3)
    /\ [](rpc = "logs" => Stage(containers[cur]) = 4)
    /\ [][ /\ Len(containers') >= Len(containers)
           /\ \A k \in 1..Len(containers) :
                 /\ containers'[k].name = containers[k].name
                 /\ Stage(containers'[k]) \in
                       {Stage(containers[k]), Stage(containers[k]) + 1, 5}
                 /\ containers'[k] /= containers[k] => k = cur
                 /\ RemoveCalled(k) =>
                       /\ k = cur
                       /\ \/ FinallyReturn
                          \/ FinallyRaise
                          \/ PutArchiveFails
           /\ (rpc' = "finally" /\ rpc /= "finally") =>
                 \/ Logs
                 \/ LogsFails \/ LogsDecodeError \/ WaitFails
                 \/ CatchContainerError
           /\ (frame'.stdout /= frame.stdout /\ rpc' = "finally") =>
                 rpc = "logs" \/ CatchContainerError
         ]_vars

\* A step in which the remove of the finally block fails.
FinalRemoveFails ==
    /\ rpc = "finally"
    /\ containers'[cur].remove_failed
    /\ ~containers[cur].remove_failed

\* C23: when the remove of the finally block fails and no exception is
\* pending, the call returns an ExecutionResult with the exit code, stdout
\* and stderr captured before, and evaluate goes on as after any run;
\* when an exception is pending, that exception leaves the call as it
\* would after a successful remove.
C23_FailedRemoveIsSwallowed ==
    [][ FinalRemoveFails =>
          IF frame.exc = NoException
          THEN /\ rpc' = "returned"
               /\ run_result'.exit_code = frame.exit_code
               /\ run_result'.stdout = frame.stdout
               /\ run_result'.stderr = frame.stderr
               /\ run_result'.elapsed_ms \in ElapsedValues
               /\ observed' = Append(observed,
                                     [ list  |-> calls[Len(calls)].list,
                                       index |-> calls[Len(calls)].index,
                                       r     |-> run_result' ])
               /\ pc' = pc
               /\ error' = error
          ELSE FinallyRaise
      ]_vars

\* C23 witness: a run returned the program's exit code and output although
\* the remove of its container failed.
C23_Witness ==
    /\ rpc = "returned"
    /\ containers /= <<>>
    /\ containers[cur].remove_failed
    /\ containers[cur].status = "exited"
    /\ run_result.exit_code = 137
    /\ run_result.stdout /= <<>>
    /\ pc /= "raised"

\* C22 witness: a run returned whose container was started with the
\* archive in it, waited for, read and removed.
C22_Witness ==
    /\ rpc = "returned"
    /\ containers /= <<>>
    /\ containers[cur].archive
    /\ containers[cur].status = "removed"
    /\ run_result.stdout /= <<>>

\* ============================================================== anti-cheat
\* AntiCheatService and AntiCheatSystem of anticheat.py.  Scores, penalties
\* and severities are floats in the code; here they are integers counting
\* hundredths (a score of 100.0 is 10000, a severity of 0.3 is 30), which
\* is exact for the values of the model.

Hundredths(x) == x * 100

Min(a, b) == IF a < b THEN a ELSE b

\* dict.get(key, default), and defaultdict's value for a key.
Get(d, key, default) == IF key \in DOMAIN d THEN d[key] ELSE default

\* d[key] = value.
Put(d, key, value) ==
    [k \in DOMAIN d \cup {key} |-> IF k = key THEN value ELSE d[k]]

\* d.pop(key, None), del d[key].
Pop(d, key) == [k \in DOMAIN d \ {key} |-> d[k]]

\* Session ids of AntiCheatService (str) and of AntiCheatSystem (int).
Sessions == {"s1", "s2"}
SessionIds == {1, 2}

\* InterviewEvent objects a websocket client may send: payloads with a
\* positive penalty, without one (a paste of 450 characters, a devtools
\* event, a chat message), and with a negative one.
Events ==
    { [type |-> "anticheat:paste",      payload |-> [penalty |-> 60]],
      [type |-> "anticheat:tab_switch", payload |-> [penalty |-> 10]],
      [type |-> "anticheat:paste",      payload |-> [chars |-> 450]],
      [type |-> "anticheat:devtools",   payload |-> [description |-> "open"]],
      [type |-> "chat:user",            payload |-> [message |-> "hi"]],
      [type |-> "anticheat:tab_blur",   payload |-> [penalty |-> 0 - 20]] }

\* The data dictionaries process_event may be given; severity in hundredths.
EventData ==
    { [type |-> "paste",    severity |-> 100],
      [type |-> "devtools", severity |-> 30],
      [type |-> "unknown"],
      [type |-> "bonus",    severity |-> 0 - 200] }

\* The default of both defaultdicts and of AntiCheatSystem: 100.0.
InitialScore == Hundredths(100)

\* anticheat.py 38-44: the severity worked out for an event without penalty.
SeverityOf(event) ==
    IF event.type = "anticheat:paste"
    THEN LET chars == Get(event.payload, "chars", 0)
         IN  IF chars > 300
             THEN Min(Hundredths(1), Hundredths(chars - 300) \div 300)
             ELSE 10
    ELSE IF event.type \in {"anticheat:devtools", "anticheat:tab_switch",
                            "anticheat:tab_blur"}
         THEN 30
         ELSE 10

\* anticheat.py 34-45: the penalty of an event.
PenaltyOf(event) ==
    LET penalty == Hundredths(Get(event.payload, "penalty", 0))
    IN  IF penalty = 0 THEN SeverityOf(event) * 10 ELSE penalty

\* A debit that is not clamped at zero.
DebitUnclamped(score, penalty) == score - penalty

\* anticheat.py 57, 107: max(0.0, score - penalty).
Debit(score, penalty) == Max(0, score - penalty)

\* A bootstrap_session that leaves the session's list as it is.
BootstrapSessionKeepsEvents(s) ==
    /\ session_trust_scores' = Put(session_trust_scores, s, InitialScore)
    /\ session_events' = Put(session_events, s, Get(session_events, s, <<>>))
    /\ since_bootstrap' = Put(since_bootstrap, s, <<>>)
    /\ n_recorded' = Put(n_recorded, s, 0)
    /\ ret' = NoReturn
    /\ UNCHANGED << session_scores, n_events >>
    /\ UNCHANGED evaluateVars

\* anticheat.py 23-26.
BootstrapSession(s) ==
    /\ session_trust_scores' = Put(session_trust_scores, s, InitialScore)
    /\ session_events' = Put(session_events, s, <<>>)
    /\ since_bootstrap' = Put(since_bootstrap, s, <<>>)
    /\ n_recorded' = Put(n_recorded, s, 0)
    /\ ret' = NoReturn
    /\ UNCHANGED << session_scores, n_events >>
    /\ UNCHANGED evaluateVars

\* anticheat.py 28-59 (the timestamp of the entry is left out).
RecordEvent(s, event) ==
    /\ n_events < MaxEvents
    /\ session_events' =
          Put(session_events, s,
              Append(Get(session_events, s, <<>>),
                     [ event_type  |-> event.type,
                       description |-> Get(event.payload, "description", ""),
                       severity    |-> PenaltyOf(event) \div 10,
                       metadata    |-> event.payload ]))
    /\ session_trust_scores' =
          Put(session_trust_scores, s,
              Debit(Get(session_trust_scores, s, InitialScore),
                    PenaltyOf(event)))
    /\ since_bootstrap' =
          IF s \in DOMAIN since_bootstrap
          THEN Put(since_bootstrap, s, Append(since_bootstrap[s], event))
          ELSE since_bootstrap
    /\ n_recorded' =
          IF s \in DOMAIN n_recorded
          THEN Put(n_recorded, s, n_recorded[s] + 1)
          ELSE n_recorded
    /\ n_events' = n_events + 1
    /\ ret' = NoReturn
    /\ UNCHANGED session_scores
    /\ UNCHANGED evaluateVars

\* anticheat.py 61-67: reading a defaultdict stores the default for a
\* missing key.
Snapshot(s) ==
    /\ session_trust_scores' =
          Put(session_trust_scores, s,
              Get(session_trust_scores, s, InitialScore))
    /\ session_events' = Put(session_events, s, Get(session_events, s, <<>>))
    /\ ret' = [ kind        |-> "AntiCheatSnapshot",
                session_id  |-> s,
                trust_score |-> session_trust_scores'[s],
                events      |-> session_events'[s] ]
    /\ UNCHANGED << session_scores, since_bootstrap, n_events, n_recorded >>
    /\ UNCHANGED evaluateVars

\* anticheat.py 69-72.
CompleteSession(s) ==
    /\ session_trust_scores' = Pop(session_trust_scores, s)
    /\ session_events' = Pop(session_events, s)
    /\ since_bootstrap' = Pop(since_bootstrap, s)
    /\ ret' = NoReturn
    /\ UNCHANGED << session_scores, n_events, n_recorded >>
    /\ UNCHANGED evaluateVars

\* anticheat.py 81-111.
ProcessEvent(id, data) ==
    /\ n_events < MaxEvents
    /\ LET severity      == Get(data, "severity", 0)
           current_score == Get(session_scores, id, InitialScore)
           penalty       == severity * 10
           new_score     == Debit(current_score, penalty)
       IN  /\ session_scores' = Put(session_scores, id, new_score)
           /\ ret' = [kind |-> "float", value |-> new_score]
    /\ n_events' = n_events + 1
    /\ UNCHANGED << session_trust_scores, session_events, since_bootstrap,
                    n_recorded >>
    /\ UNCHANGED evaluateVars

\* anticheat.py 113-115.
GetTrustScore(id) ==
    /\ ret' = [kind |-> "float", value |-> Get(session_scores, id, InitialScore)]
    /\ UNCHANGED << session_trust_scores, session_events, session_scores,
                    since_bootstrap, n_events, n_recorded >>
    /\ UNCHANGED evaluateVars

\* anticheat.py 117-120.
ResetSession(id) ==
    /\ session_scores' = Pop(session_scores, id)
    /\ ret' = NoReturn
    /\ UNCHANGED << session_trust_scores, session_events, since_bootstrap,
                    n_events, n_recorded >>
    /\ UNCHANGED evaluateVars

InitAntiCheat ==
    /\ task_file = NoFile
    /\ language = "python"
    /\ platform = "up"
    /\ EvaluateAtStart
    /\ AntiCheatInit
    /\ NoRunCalls
    /\ OneEvaluation
    /\ ServerAtStart

NextAntiCheat ==
    \/ \E s \in Sessions : BootstrapSession(s)
    \/ \E s \in Sessions, event \in Events : RecordEvent(s, event)
    \/ \E s \in Sessions : Snapshot(s)
    \/ \E s \in Sessions : CompleteSession(s)
    \/ \E id \in SessionIds, data \in EventData : ProcessEvent(id, data)
    \/ \E id \in SessionIds : GetTrustScore(id)
    \/ \E id \in SessionIds : ResetSession(id)

SpecAntiCheat == InitAntiCheat /\ [][NextAntiCheat]_vars

\* Every event of the sequence carries a penalty above zero.
PositivePenalties(events) ==
    \A k \in 1..Len(events) :
        /\ "penalty" \in DOMAIN events[k].payload
        /\ events[k].payload.penalty > 0

\* 100 minus the penalties of the events, one after another, a difference
\* below 0 counting as 0 at each step.
RECURSIVE ScoreAfter(_)
ScoreAfter(events) ==
    IF events = <<>> THEN Hundredths(100)
    ELSE LET before == ScoreAfter(SubSeq(events, 1, Len(events) - 1))
             after  == before - Hundredths(events[Len(events)].payload.penalty)
         IN  IF after < 0 THEN 0 ELSE after

\* C19: for a session that was bootstrapped and has since been given only
\* events with a positive penalty, the trust score is 100 minus the
\* penalties applied so far, clamped at 0 after each step; a snapshot
\* reports the session's score, so one taken after bootstrap_session and
\* before any event reports 100.
C19_TrustScoreIsClampedDifference ==
    /\ \A s \in DOMAIN since_bootstrap :
          PositivePenalties(since_bootstrap[s]) =>
              /\ s \in DOMAIN session_trust_scores
              /\ session_trust_scores[s] = ScoreAfter(since_bootstrap[s])
    /\ ret.kind = "AntiCheatSnapshot" =>
          /\ ret.trust_score = session_trust_scores[ret.session_id]
          /\ (/\ ret.session_id \in DOMAIN since_bootstrap
              /\ since_bootstrap[ret.session_id] = <<>>)
                => ret.trust_score = Hundredths(100)

\* C19 witness: two events of penalty 60 after bootstrap_session, and the
\* snapshot taken then reports 0, not -20.
C19_Witness ==
    \E s \in DOMAIN since_bootstrap :
        /\ Len(since_bootstrap[s]) = 2
        /\ \A k \in 1..2 : Get(since_bootstrap[s][k].payload, "penalty", 0) = 60
        /\ ret.kind = "AntiCheatSnapshot"
        /\ ret.session_id = s
        /\ ret.trust_score = 0

\* The entry record_event appends for an event.
EntryOf(event) ==
    [ event_type  |-> event.type,
      description |-> Get(event.payload, "description", ""),
      severity    |-> PenaltyOf(event) \div 10,
      metadata    |-> event.payload ]

\* The list held for session s is the events given, one entry each, in
\* the order given.
HeldInOrder(s, events) ==
    /\ s \in DOMAIN session_events
    /\ Len(session_events[s]) = Len(events)
    /\ \A k \in 1..Len(events) : session_events[s][k] = EntryOf(events[k])

\* C21 as stated: for every session that was bootstrapped, the number of
\* events held equals the number of record_event calls made for it since
\* its last bootstrap_session.
C21_HeldEqualsCallsSinceBootstrap ==
    \A s \in DOMAIN n_recorded :
        Len(Get(session_events, s, <<>>)) = n_recorded[s]

\* C21: for a session that was bootstrapped and not completed since, the
\* events held are the events of the record_event calls made since
\* bootstrap_session, one entry per call, in the order of the calls, and a
\* snapshot returns the list held.
C21_HeldSinceBootstrapInOrder ==
    /\ \A s \in DOMAIN since_bootstrap :
          /\ HeldInOrder(s, since_bootstrap[s])
          /\ Len(session_events[s]) = n_recorded[s]
    /\ ret.kind = "AntiCheatSnapshot" =>
          ret.events = session_events[ret.session_id]

\* C21 witness: a snapshot of a session with two different events recorded
\* since bootstrap_session.
C21_Witness ==
    /\ ret.kind = "AntiCheatSnapshot"
    /\ ret.session_id \in DOMAIN since_bootstrap
    /\ Len(ret.events) = 2
    /\ ret.events[1] /= ret.events[2]
    /\ n_recorded[ret.session_id] = 2

\* C20: the trust score of every session, in AntiCheatService and in
\* AntiCheatSystem, is within 0..100 whatever events were given.
C20_TrustScoreInRange ==
    /\ \A s \in DOMAIN session_trust_scores :
          /\ 0 <= session_trust_scores[s]
          /\ session_trust_scores[s] <= Hundredths(100)
    /\ \A id \in DOMAIN session_scores :
          /\ 0 <= session_scores[id]
          /\ session_scores[id] <= Hundredths(100)

\* ===================================================== concurrent run calls
\* MaxCalls coroutines call DockerRunner.run on one runner and one event
\* loop.  The code of run up to its await is one step of the loop; the
\* steps of _run_container are taken by the thread it was handed to.  The
\* platform works here, but for the daemon refusing a container name that
\* is in use: its failures are those of the single run call above.

Calls == 1..MaxCalls

\* The (code, language, input_data) a run call may be given.
Submissions ==
    { [code |-> "A", language |-> "python", input_data |-> "x"],
      [code |-> "B", language |-> "python", input_data |-> "y"] }

\* A run call that has not started: its arguments, and its locals unset.
NewCall(args) ==
    [ code           |-> args.code,
      language       |-> args.language,
      input_data     |-> args.input_data,
      at             |-> "new",
      thread         |-> "none",
      tmpdir         |-> 0,
      archive        |-> EmptyDict,
      container_name |-> 0,
      exit_code      |-> 0,
      stdout         |-> EmptyDict,
      exc            |-> NoException,
      overtook       |-> {} ]

\* runner.py 69: f"Main{config['extension']}".
MainFile(extension) ==
    CASE extension = ".py"   -> "Main.py"
      [] extension = ".js"   -> "Main.js"
      [] extension = ".java" -> "Main.java"
      [] extension = ".cpp"  -> "Main.cpp"

\* runner.py 69-72: the two files run writes for a call.
WorkspaceFiles(call) ==
    [ name \in {MainFile(LANGUAGE_CONFIG[call.language].extension), "input.txt"}
        |-> IF name = "input.txt" THEN call.input_data ELSE call.code ]

\* What the container's command prints: a deterministic program, whose
\* output is a function of the files it finds under /workspace.
ProgramOutput(files) == [workspace |-> files]

\* runner.py 81: ["bash", "-lc", "cd /workspace && " + config["command"]],
\* the script being the sequence of its words.
Command(config) ==
    << "bash", "-lc", << "cd", "/workspace", "&&" >> \o config.command >>

\* Options of a container with network access and twice the memory.
CreateOptionsOpen == [ mem_limit |-> "1g", network_disabled |-> FALSE ]

\* runner.py 111-112: the limits every container is created with.
CreateOptions == [ mem_limit |-> "512m", network_disabled |-> TRUE ]

\* tempfile.TemporaryDirectory(): a directory that did not exist.
MkDTemp == CHOOSE d \in Calls : d \notin DOMAIN tmp /\ \A e \in 1..(d - 1) : e \in DOMAIN tmp

\* A container name that is drawn again: the one of the call before.
FixedName == IF uuids = 0 THEN 1 ELSE uuids

\* runner.py 82: uuid.uuid4(), a value never drawn before.
Uuid4 == uuids + 1

\* The blocking function called in place, on the event loop's thread.
RunInline(c) == [thread |-> "loop", loop |-> c]

\* runner.py 84-93: loop.run_in_executor(None, ...) hands the function to a
\* worker thread and the coroutine awaits; the loop is free.
RunInExecutor(c) == [thread |-> "worker", loop |-> 0]

\* What the steps of the concurrent run calls leave alone.
outsidePool == << task_file, language, platform, pc, visible, hidden, i, ev,
                  result, error, runnerVars, antiCheatVars, againVars,
                  serverVars >>

\* The calls whose worker is blocked in container.wait().
Blocked ==
    { d \in Calls :
        /\ run_calls[d].at = "wait"
        /\ run_calls[d].container_name \in DOMAIN docker
        /\ docker[run_calls[d].container_name].status = "running" }

\* runner.py 64-93: run up to its await, one step of the event loop.
RunPrepare(c) ==
    /\ run_calls[c].at = "new"
    /\ loop_owner = 0
    /\ LET call     == run_calls[c]
           tmpdir   == MkDTemp
           written  == Put(tmp, tmpdir, WorkspaceFiles(call))
           handed   == RunInExecutor(c)
       IN  /\ tmp' = written
           /\ run_calls' =
                 [run_calls EXCEPT ![c] =
                     [@ EXCEPT !.tmpdir = tmpdir,
                               !.archive = written[tmpdir],
                               !.container_name = Uuid4,
                               !.thread = handed.thread,
                               !.at = "create"]]
           /\ loop_owner' = handed.loop
    /\ uuids' = uuids + 1
    /\ UNCHANGED << docker, created >>
    /\ UNCHANGED outsidePool

\* runner.py 104-113: containers.create makes a new container under the
\* call's name; the daemon refuses a name that is in use (409 Conflict).
WorkerCreate(c) ==
    /\ run_calls[c].at = "create"
    /\ LET name == run_calls[c].container_name
       IN  IF name \in DOMAIN docker
           THEN /\ run_calls' = [run_calls EXCEPT ![c].at = "resolved",
                                                  ![c].exc = "APIError"]
                /\ UNCHANGED << docker, created >>
           ELSE /\ docker' =
                     Put(docker, name,
                         LET config == LANGUAGE_CONFIG[run_calls[c].language]
                         IN  [ files            |-> EmptyDict,
                               status           |-> "created",
                               stdout           |-> EmptyDict,
                               image            |-> config.image,
                               command          |-> Command(config),
                               mem_limit        |-> CreateOptions.mem_limit,
                               network_disabled |->
                                   CreateOptions.network_disabled ])
                /\ created' = Append(created, [name |-> name, call |-> c])
                /\ run_calls' = [run_calls EXCEPT ![c].at = "put_archive"]
    /\ UNCHANGED << tmp, uuids, loop_owner >>
    /\ UNCHANGED outsidePool

\* runner.py 115-116: the archive is unpacked into the container.
WorkerPutArchive(c) ==
    /\ run_calls[c].at = "put_archive"
    /\ LET name    == run_calls[c].container_name
           archive == run_calls[c].archive
       IN  docker' = [docker EXCEPT ![name].files =
                        [f \in DOMAIN @ \cup DOMAIN archive |->
                            IF f \in DOMAIN archive THEN archive[f] ELSE @[f]]]
    /\ run_calls' = [run_calls EXCEPT ![c].at = "start"]
    /\ UNCHANGED << tmp, uuids, created, loop_owner >>
    /\ UNCHANGED outsidePool

\* runner.py 121.
WorkerStart(c) ==
    /\ run_calls[c].at = "start"
    /\ docker' = [docker EXCEPT ![run_calls[c].container_name].status = "running"]
    /\ run_calls' = [run_calls EXCEPT ![c].at = "wait"]
    /\ UNCHANGED << tmp, uuids, created, loop_owner >>
    /\ UNCHANGED outsidePool

\* The program of a running container reads its files, prints and exits.
ContainerExits(name) ==
    /\ docker[name].status = "running"
    /\ docker' = [docker EXCEPT ![name].status = "exited",
                                ![name].stdout = ProgramOutput(docker[name].files)]
    /\ UNCHANGED << run_calls, tmp, uuids, created, loop_owner >>
    /\ UNCHANGED outsidePool

\* runner.py 127: wait returns once the container has exited.
WorkerWait(c) ==
    /\ run_calls[c].at = "wait"
    /\ docker[run_calls[c].container_name].status = "exited"
    /\ run_calls' = [run_calls EXCEPT ![c].at = "logs", ![c].exit_code = 0]
    /\ UNCHANGED << docker, tmp, uuids, created, loop_owner >>
    /\ UNCHANGED outsidePool

\* runner.py 128-129.
WorkerLogs(c) ==
    /\ run_calls[c].at = "logs"
    /\ run_calls' =
          [run_calls EXCEPT ![c].at = "finally",
                            ![c].stdout = docker[run_calls[c].container_name].stdout]
    /\ UNCHANGED << docker, tmp, uuids, created, loop_owner >>
    /\ UNCHANGED outsidePool

\* runner.py 134-147: the container is removed and the function returns,
\* which resolves the future run awaits.
WorkerFinally(c) ==
    /\ run_calls[c].at = "finally"
    /\ docker' = Pop(docker, run_calls[c].container_name)
    /\ run_calls' = [run_calls EXCEPT ![c].at = "resolved"]
    /\ UNCHANGED << tmp, uuids, created, loop_owner >>
    /\ UNCHANGED outsidePool

\* runner.py 68, 94: the coroutine is resumed by the event loop, the with
\* block removes the temporary directory, and run returns the result or
\* lets the exception through.
RunResume(c) ==
    /\ run_calls[c].at = "resolved"
    /\ loop_owner \in {0, c}
    /\ tmp' = Pop(tmp, run_calls[c].tmpdir)
    /\ run_calls' =
          [run_calls EXCEPT
              ![c].at = IF run_calls[c].exc = NoException THEN "returned"
                        ELSE "raised",
              ![c].overtook = Blocked]
    /\ loop_owner' = 0
    /\ UNCHANGED << docker, uuids, created >>
    /\ UNCHANGED outsidePool

InitRuns ==
    /\ task_file = NoFile
    /\ language = "python"
    /\ platform = "up"
    /\ EvaluateAtStart
    /\ AntiCheatInit
    /\ run_calls \in [Calls -> { NewCall(args) : args \in Submissions }]
    /\ docker = EmptyDict
    /\ tmp = EmptyDict
    /\ uuids = 0
    /\ created = <<>>
    /\ loop_owner = 0
    /\ OneEvaluation
    /\ ServerAtStart

NextRuns ==
    \/ \E c \in Calls : RunPrepare(c)
    \/ \E c \in Calls : WorkerCreate(c)
    \/ \E c \in Calls : WorkerPutArchive(c)
    \/ \E c \in Calls : WorkerStart(c)
    \/ \E name \in DOMAIN docker : ContainerExits(name)
    \/ \E c \in Calls : WorkerWait(c)
    \/ \E c \in Calls : WorkerLogs(c)
    \/ \E c \in Calls : WorkerFinally(c)
    \/ \E c \in Calls : RunResume(c)

SpecRuns == InitRuns /\ [][NextRuns]_vars

\* The entries of the creation history made for a call.
CreatedBy(c) == { k \in 1..Len(created) : created[k].call = c }

\* C15: every run call creates one container of its own, under a name no
\* other container ever had; the files under its /workspace are, once the
\* archive is in, exactly the source file and input.txt of that call; the
\* temporary directory of a call holds that call's two files and no other
\* call's; and the output a call returns is what the program printed from
\* that call's own code and input, whatever runs concurrently.
C15_FreshContainerOwnFiles ==
    /\ \A j, k \in 1..Len(created) :
          j /= k => /\ created[j].name /= created[k].name
                    /\ created[j].call /= created[k].call
    /\ \A c \in Calls :
          LET call == run_calls[c]
          IN  /\ call.at \in {"put_archive", "start", "wait", "logs", "finally"}
                    => /\ Cardinality(CreatedBy(c)) = 1
                       /\ call.container_name \in DOMAIN docker
              /\ call.at \in {"start", "wait", "logs", "finally"}
                    => docker[call.container_name].files = WorkspaceFiles(call)
              /\ call.at \in {"create", "put_archive", "start", "wait", "logs",
                              "finally", "resolved"}
                    => /\ call.tmpdir \in DOMAIN tmp
                       /\ tmp[call.tmpdir] = WorkspaceFiles(call)
                       /\ \A d \in Calls \ {c} :
                             run_calls[d].tmpdir /= call.tmpdir
                                \/ run_calls[d].at \in {"new", "returned", "raised"}
              /\ call.at = "returned"
                    => call.stdout = ProgramOutput(WorkspaceFiles(call))
    /\ \A k \in 1..Len(created) :
          created[k].name \in DOMAIN docker =>
              docker[created[k].name].files
                  \in {EmptyDict, WorkspaceFiles(run_calls[created[k].call])}

\* C15 witness: two calls with different code and input have their
\* containers running at the same time, each with its own two files.
C15_Witness ==
    \E c, d \in Calls :
        /\ run_calls[c].code /= run_calls[d].code
        /\ run_calls[c].input_data /= run_calls[d].input_data
        /\ run_calls[c].at = "wait"
        /\ run_calls[d].at = "wait"
        /\ docker[run_calls[c].container_name].status = "running"
        /\ docker[run_calls[d].container_name].status = "running"
        /\ docker[run_calls[c].container_name].files
              /= docker[run_calls[d].container_name].files

\* The positions at which a call is in a blocking container operation.
ContainerOperations ==
    {"create", "put_archive", "start", "wait", "logs", "finally"}

\* C18: a call that is at a container operation (create, put_archive,
\* start, wait, logs, remove) has it executed by a worker thread and does
\* not occupy the event loop; so whenever a call is blocked waiting for its
\* container, the loop is free and every other coroutine that is ready (a
\* run call about to start, or one whose future is resolved) can take its
\* next step.
C18_ContainerOperationsOffTheLoop ==
    /\ \A c \in Calls :
          run_calls[c].at \in ContainerOperations =>
              /\ run_calls[c].thread = "worker"
              /\ loop_owner /= c
    /\ Blocked /= {} =>
          /\ loop_owner = 0
          /\ \A d \in Calls :
                /\ run_calls[d].at = "new" => ENABLED RunPrepare(d)
                /\ run_calls[d].at = "resolved" => ENABLED RunResume(d)

\* C18 witness: a call ran to its return while the worker of another call,
\* whose container had been created before, was blocked in wait.
C18_Witness ==
    \E c, d \in Calls :
        /\ c \in run_calls[d].overtook
        /\ run_calls[d].at = "returned"
        /\ c \in Blocked
        /\ run_calls[c].container_name < run_calls[d].container_name

\* --------------------------------------------- run, for every language
\* The run calls of the model are made for one language of the catalog,
\* whichever it is.

InitCatalog ==
    /\ task_file = NoFile
    /\ language = "python"
    /\ platform = "up"
    /\ EvaluateAtStart
    /\ AntiCheatInit
    /\ \E lang \in SupportedLanguage, input_data \in {"x", ""} :
          run_calls = [ c \in Calls |->
                          NewCall([ code       |-> "A",
                                    language   |-> lang,
                                    input_data |-> input_data ]) ]
    /\ docker = EmptyDict
    /\ tmp = EmptyDict
    /\ uuids = 0
    /\ created = <<>>
    /\ loop_owner = 0
    /\ OneEvaluation
    /\ ServerAtStart

SpecCatalog == InitCatalog /\ [][NextRuns]_vars

\* The files a script names: what it gives to an interpreter or a
\* compiler, what it redirects from and what it gives to cat.
FilesNamed(script) ==
    { script[k + 1] :
        k \in { j \in 1..(Len(script) - 1) :
                  script[j] \in {"python", "node", "javac", "g++", "<", "cat"} } }

\* C30: every supported language has a catalog entry, whose command names
\* as files exactly Main plus the entry's extension and input.txt; every
\* container is created with the 512m memory limit and with networking
\* disabled, with the command of its call's language; and the files the
\* call injects are exactly the files that command names.
C30_LimitsAndFileNamesForEveryLanguage ==
    /\ \A lang \in SupportedLanguage :
          /\ lang \in DOMAIN LANGUAGE_CONFIG
          /\ FilesNamed(LANGUAGE_CONFIG[lang].command)
                = {MainFile(LANGUAGE_CONFIG[lang].extension), "input.txt"}
    /\ \A c \in Calls :
          run_calls[c].archive /= EmptyDict =>
              DOMAIN run_calls[c].archive
                = FilesNamed(LANGUAGE_CONFIG[run_calls[c].language].command)
    /\ \A k \in 1..Len(created) :
          LET name == created[k].name
              call == run_calls[created[k].call]
          IN  name \in DOMAIN docker =>
                /\ docker[name].mem_limit = "512m"
                /\ docker[name].network_disabled
                /\ docker[name].image = LANGUAGE_CONFIG[call.language].image
                /\ docker[name].command[1] = "bash"
                /\ docker[name].files /= EmptyDict =>
                      DOMAIN docker[name].files
                        = FilesNamed(docker[name].command[3])

\* C30 witness: a container of the C++ image that was started with
\* Main.cpp and input.txt in it.
C30_Witness ==
    \E name \in DOMAIN docker :
        /\ docker[name].image = "gcc:14"
        /\ docker[name].status /= "created"
        /\ DOMAIN docker[name].files = {"Main.cpp", "input.txt"}
        /\ docker[name].network_disabled

\* ======================================================= evaluate, twice
\* The same SubmissionJudge is given the same code, language and task a
\* second time, after the first call returned.  Nothing is reset in between:
\* the daemon keeps what the first call left, and the variables that stand
\* for the first call's locals keep their last values.

\* judge.py 26: evaluate is called again with the same arguments; the
\* result of the first call is with its caller.
EvaluateAgain ==
    /\ pc = "done"
    /\ round = 1
    /\ first_result' = result
    /\ round' = 2
    /\ pc' = "load"
    /\ result' = <<>>
    /\ calls' = <<>>
    /\ returned' = 0
    /\ observed' = <<>>
    /\ UNCHANGED << task_file, language, platform, antiCheatVars, poolVars,
                    submission, serverVars >>
    /\ UNCHANGED << visible, hidden, i, ev, error, rpc, containers, program,
                    frame, run_result >>

\* The task files of a repeated evaluation: one test case fewer, for the
\* test cases are run twice.
TaskFilesTwice ==
    { f \in TaskFiles :
        Len(f.tests["visible"]) + Len(f.tests["hidden"]) < MaxTests }

InitTwice ==
    /\ task_file \in TaskFilesTwice
    /\ language \in LanguageIds
    /\ platform \in {"up", "down"}
    /\ EvaluateAtStart
    /\ AntiCheatInit
    /\ NoRunCalls
    /\ submission \in DeterministicPrograms
    /\ round = 1
    /\ first_result = <<>>
    /\ ServerAtStart

\* The steps of evaluate and run, and the second call.  The handler of
\* ContainerError is left out: docker-py raises ContainerError in
\* containers.run() only, which this runner does not call, so for a given
\* program the handler cannot make one run differ from another.
NextTwice ==
    \/ EvaluateTaskNotFound
    \/ EvaluateLoadTask
    \/ VisibleCall
    \/ VisibleRecord
    \/ VisibleExit
    \/ HiddenCall
    \/ HiddenRecord
    \/ EvaluateReturn
    \/ RunUnsupportedLanguage
    \/ Create
    \/ CreateFails
    \/ PutArchive
    \/ PutArchiveFails
    \/ Start
    \/ StartFails
    \/ Wait
    \/ WaitFails
    \/ Logs
    \/ LogsFails
    \/ LogsDecodeError
    \/ FinallyReturn
    \/ FinallyRaise
    \/ EvaluateAgain

SpecTwice == InitTwice /\ [][NextTwice]_vars

\* Two results agree in everything but the elapsed times.
SameVerdict(a, b) ==
    /\ a.task_id = b.task_id
    /\ a.passed = b.passed
    /\ a.hidden_tests_passed = b.hidden_tests_passed
    /\ Len(a.visible_tests) = Len(b.visible_tests)
    /\ \A j \in 1..Len(a.visible_tests) :
          /\ a.visible_tests[j].input = b.visible_tests[j].input
          /\ a.visible_tests[j].expected = b.visible_tests[j].expected
          /\ a.visible_tests[j].passed = b.visible_tests[j].passed
          /\ a.visible_tests[j].stdout = b.visible_tests[j].stdout

PayloadSessionIds == {"1", "9", "x"}

\* The ids int() accepts.
Numeric == {"1", "9"}

\* f"session:{session_id}".
SessionKey(session_id) == << "session:", session_id >>

\* json.dumps of a dictionary, and str() of a score: the text stored.
JsonDumps(d) == [json |-> d]
StrOf(x) == [str |-> x]

\* redis_client.hset(key, mapping=...): the fields of the mapping are set,
\* the other fields of the hash stay.
HSet(store, key, mapping) ==
    Put(store, key,
        [ f \in DOMAIN Get(store, key, EmptyDict) \cup DOMAIN mapping |->
            IF f \in DOMAIN mapping THEN mapping[f]
            ELSE store[key][f] ])

\* The stored result of an earlier submission that passed.
EarlierResult ==
    [ task_id             |-> task_id,
      passed              |-> TRUE,
      visible_tests       |-> <<>>,
      hidden_tests_passed |-> 1,
      metrics             |-> [max_elapsed_ms |-> 12, max_memory_bytes |-> 0],
      code_quality        |-> "report" ]

\* main.py 234-245, 295-302: the hash of a started session (the fields
\* the handlers of the model read or write) with a result stored.
StartedSession(latest) ==
    [ trust_score   |-> StrOf(InitialScore),
      status        |-> "active",
      latest_result |-> JsonDumps(latest) ]

\* main.py 273-279: the result used when evaluate raised.
FallbackResult ==
    [ task_id             |-> task_id,
      passed              |-> FALSE,
      visible_tests       |-> <<>>,
      hidden_tests_passed |-> 0,
      metrics             |-> [max_elapsed_ms |-> 0] ]

\* code_quality.py 12-33: n/a for a language other than python, the
\* report of radon and pylint otherwise.
CodeQuality(code, lang) ==
    IF lang /= "python" THEN [quality |-> "n/a"] ELSE "report"

\* main.py 255-260: the session row is looked up; HTTPException 404 for a
\* missing row and for an id that is no number.
SubmitSessionNotFound ==
    /\ submit.at = "entry"
    /\ submit.session_id \notin Numeric \/ submit.session_id \notin DOMAIN db
    /\ submit' = [submit EXCEPT !.at = "failed", !.status = 404]
    /\ UNCHANGED << redis, db, wsVars >>
    /\ UNCHANGED << task_file, language, platform, antiCheatVars, poolVars,
                    againVars >>
    /\ UNCHANGED << pc, visible, hidden, i, ev, result, error >>
    /\ UNCHANGED runnerVars

\* main.py 262: SupportedLanguage(payload.language) raises ValueError for
\* a language that is not in the enumeration; nothing catches it.
SubmitUnsupportedLanguage ==
    /\ submit.at = "entry"
    /\ submit.session_id \in Numeric
    /\ submit.session_id \in DOMAIN db
    /\ language \notin DOMAIN LANGUAGE_CONFIG
    /\ submit' = [submit EXCEPT !.at = "failed", !.status = 500]
    /\ UNCHANGED << redis, db, wsVars >>
    /\ UNCHANGED << task_file, language, platform, antiCheatVars, poolVars,
                    againVars >>
    /\ UNCHANGED << pc, visible, hidden, i, ev, result, error >>
    /\ UNCHANGED runnerVars

\* main.py 255-266: the session is found, the language converted and
\* judge.evaluate called.
SubmitCallEvaluate ==
    /\ submit.at = "entry"
    /\ submit.session_id \in Numeric
    /\ submit.session_id \in DOMAIN db
    /\ language \in DOMAIN LANGUAGE_CONFIG
    /\ submit' = [submit EXCEPT !.at = "evaluate"]
    /\ pc' = "load"
    /\ UNCHANGED << redis, db, wsVars >>
    /\ UNCHANGED << task_file, language, platform, antiCheatVars, poolVars,
                    againVars >>
    /\ UNCHANGED << visible, hidden, i, ev, result, error >>
    /\ UNCHANGED runnerVars

\* main.py 281-326: code quality is added to the judge's result, the
\* session's anti-cheat snapshot taken, latest_result and trust_score
\* stored, the row updated and the response built.
SubmitRespond(judge_result) ==
    LET sid      == submit.session_id
        quality  == CodeQuality(submission, language)
        stored   == Put(judge_result, "code_quality", quality)
        score    == Get(session_trust_scores, sid, InitialScore)
    IN  /\ session_trust_scores' = Put(session_trust_scores, sid, score)
        /\ session_events' =
              Put(session_events, sid, Get(session_events, sid, <<>>))
        /\ redis' = HSet(redis, SessionKey(sid),
                         [ latest_result |-> JsonDumps(stored),
                           trust_score   |-> StrOf(score) ])
        /\ db' = Put(db, sid,
                     [ total_score |-> Get(stored.metrics,
                                           "max_elapsed_ms", 0),
                       trust_score |-> score ])
        /\ submit' = [submit EXCEPT
                        !.at = "responded",
                        !.status = 200,
                        !.response =
                           [ passed        |-> stored.passed,
                             visible_tests |-> stored.visible_tests,
                             hidden_tests  |-> <<>>,
                             code_quality  |-> stored.code_quality,
                             metrics       |-> stored.metrics ]]
        /\ UNCHANGED << session_scores, ret, since_bootstrap, n_events,
                        n_recorded, wsVars >>
        /\ UNCHANGED << task_file, language, platform, poolVars, againVars >>
        /\ UNCHANGED << pc, visible, hidden, i, ev, result, error >>
        /\ UNCHANGED runnerVars

\* main.py 266-267: evaluate returned its dictionary.
SubmitJudgeReturned ==
    /\ submit.at = "evaluate"
    /\ pc = "done"
    /\ SubmitRespond(result)

\* A handler that lets the judge's exception through.
SubmitJudgeRaisedFails ==
    /\ submit.at = "evaluate"
    /\ pc = "raised"
    /\ submit' = [submit EXCEPT !.at = "failed", !.status = 500]
    /\ UNCHANGED << redis, db, wsVars >>
    /\ UNCHANGED << task_file, language, platform, antiCheatVars, poolVars,
                    againVars >>
    /\ UNCHANGED << pc, visible, hidden, i, ev, result, error >>
    /\ UNCHANGED runnerVars

\* main.py 268-280: evaluate raised; the fallback takes the place of its
\* result.
SubmitJudgeRaised ==
    /\ submit.at = "evaluate"
    /\ pc = "raised"
    /\ SubmitRespond(FallbackResult)

InitSubmit ==
    /\ task_file \in TaskFiles
    /\ language \in LanguageIds
    /\ platform \in {"up", "down"}
    /\ pc = "not_called"
    /\ visible = <<>>
    /\ hidden = <<>>
    /\ i = 1
    /\ ev = InitLocals
    /\ result = <<>>
    /\ error = ""
    /\ rpc = "idle"
    /\ containers = <<>>
    /\ program = NoBehaviour
    /\ frame = InitFrame
    /\ run_result = NoRunResult
    /\ calls = <<>>
    /\ returned = 0
    /\ observed = <<>>
    /\ AntiCheatInit
    /\ NoRunCalls
    /\ OneEvaluation
    /\ redis = Put(EmptyDict, SessionKey("1"), StartedSession(EarlierResult))
    /\ db = Put(EmptyDict, "1", [total_score |-> 0, trust_score |-> InitialScore])
    /\ \E sid \in PayloadSessionIds :
          submit = [ at |-> "entry", session_id |-> sid, status |-> 0,
                     response |-> <<>> ]
    /\ ws_connections = EmptyDict
    /\ ws_lists = <<>>
    /\ ws_locks = {}
    /\ sock = EmptyDict

NextSubmit ==
    \/ SubmitSessionNotFound
    \/ SubmitUnsupportedLanguage
    \/ SubmitCallEvaluate
    \/ SubmitJudgeReturned
    \/ SubmitJudgeRaised
    \/ EvaluateTaskNotFound
    \/ EvaluateLoadTask
    \/ VisibleCall
    \/ VisibleRecord
    \/ VisibleExit
    \/ HiddenCall
    \/ HiddenRecord
    \/ EvaluateReturn
    \/ Create
    \/ CreateFails
    \/ PutArchive
    \/ PutArchiveFails
    \/ Start
    \/ StartFails
    \/ Wait
    \/ WaitFails
    \/ Logs
    \/ LogsFails
    \/ LogsDecodeError
    \/ CatchContainerError
    \/ FinallyReturn
    \/ FinallyRaise

SpecSubmit == InitSubmit /\ [][NextSubmit]_vars

\* The response and the stored result of a request whose evaluate raised.
FallbackStored == Put(FallbackResult, "code_quality",
                      CodeQuality(submission, language))

\* C24: a request whose judge.evaluate raised is answered, not failed:
\* the response has passed = false, no visible tests and max_elapsed_ms 0,
\* and the session's latest_result is overwritten by the fallback, which
\* is the same whatever was raised and however many test cases had run.
C24_JudgeFailureAnsweredWithFallback ==
    /\ (submit.at = "evaluate" /\ pc = "raised") => ENABLED SubmitJudgeRaised
    /\ submit.at = "failed" => pc = "not_called"
    /\ (submit.at = "responded" /\ pc = "raised") =>
          /\ submit.status = 200
          /\ submit.response.passed = FALSE
          /\ submit.response.visible_tests = <<>>
          /\ submit.response.metrics.max_elapsed_ms = 0
          /\ redis[SessionKey(submit.session_id)].latest_result
                = JsonDumps(FallbackStored)
          /\ db[submit.session_id].total_score = 0

\* C24 witness: evaluate raised the Runner's exception after a visible
\* test had been run and recorded, the earlier passing result was stored,
\* and the request was answered.
C24_Witness ==
    /\ submit.at = "responded"
    /\ pc = "raised"
    /\ error = "RunnerError"
    /\ Len(observed) >= 1
    /\ redis[SessionKey("1")].latest_result = JsonDumps(FallbackStored)
    /\ submit.response.passed = FALSE

\* ========================================================== interview_ws
\* The websocket endpoint /ws/interview/{session_id} (main.py 441-509) with
\* the WebsocketManager (websocket_manager.py) and the AntiCheatService.
\* Every websocket of the model is opened for the same started session.
\* The handlers are coroutines on one event loop: a step of the model runs
\* a handler from one await to the next.

WsSession == "s1"

Sockets == {"a", "b"}

\* The messages a client sends: InterviewEvent objects of the three kinds
\* the handler tells apart, the second paste being large enough for the
\* warning of main.py 490.
WsEvents ==
    { [type |-> "anticheat:paste", payload |-> [penalty |-> 60]],
      [type |-> "anticheat:paste", payload |-> [chars |-> 600]],
      [type |-> "chat:user",       payload |-> [message |-> "hi"]],
      [type |-> "code:update",     payload |-> [content |-> "x"]] }

\* str.startswith("anticheat:").
IsAntiCheat(event) ==
    event.type \in {"anticheat:paste", "anticheat:devtools",
                    "anticheat:tab_switch", "anticheat:tab_blur"}

\* The variables of evaluate and run, which no step of the server's
\* websocket side touches.
outsideServer == << task_file, language, platform, pc, visible, hidden, i,
                    ev, result, error, runnerVars, poolVars, againVars >>

\* The elements of a list.
Range(seq) == { seq[k] : k \in 1..Len(seq) }

\* list.remove(x): the first occurrence goes.
RemoveFirst(seq, x) ==
    IF x \notin Range(seq) THEN seq
    ELSE LET at == CHOOSE k \in 1..Len(seq) :
                      seq[k] = x /\ \A m \in 1..(k - 1) : seq[m] /= x
         IN  SubSeq(seq, 1, at - 1) \o SubSeq(seq, at + 1, Len(seq))

\* The WebsocketManager's tables as one value.
Manager ==
    [ connections |-> ws_connections, lists |-> ws_lists, locks |-> ws_locks ]

\* self._connections.get(session_id, []) read as a value.
ConnectionsOf(m, session) ==
    IF session \in DOMAIN m.connections
    THEN m.lists[m.connections[session]]
    ELSE <<>>

\* websocket_manager.py 17-19: the lock and the list are created on first
\* use (defaultdict), the websocket is appended.  The lock is never held
\* across an await, so acquiring it never waits.
Connect(m, session, websocket) ==
    IF session \in DOMAIN m.connections
    THEN [ m EXCEPT !.lists[m.connections[session]] = Append(@, websocket),
                    !.locks = @ \cup {session} ]
    ELSE [ connections |-> Put(m.connections, session, Len(m.lists) + 1),
           lists       |-> Append(m.lists, << websocket >>),
           locks       |-> m.locks \cup {session} ]

\* websocket_manager.py 21-27.
Disconnect(m, session, websocket) ==
    LET removed ==
            IF session \in DOMAIN m.connections
            THEN [ m EXCEPT !.lists[m.connections[session]] =
                                RemoveFirst(@, websocket) ]
            ELSE m
    IN  IF ConnectionsOf(removed, session) = <<>>
        THEN [ removed EXCEPT !.connections = Pop(@, session),
                              !.locks = @ \ {session} ]
        ELSE removed

\* websocket_manager.py 39-40: for ws in dead: self.disconnect(...).
RECURSIVE DisconnectAll(_, _, _)
DisconnectAll(m, session, dead) ==
    IF dead = <<>> THEN m
    ELSE DisconnectAll(Disconnect(m, session, dead[1]), session, Tail(dead))

SetManager(m) ==
    /\ ws_connections' = m.connections
    /\ ws_lists' = m.lists
    /\ ws_locks' = m.locks

\* The frame of a broadcast call: the list object it iterates, the
\* iterator's index, the websocket whose send_json is awaited, the dead
\* list; and as history the websockets registered when it started, those
\* send_json returned for, and those registered when it ended.
NoBroadcast ==
    [ kind |-> "none", list |-> 0, idx |-> 0, target |-> "", dead |-> <<>>,
      start |-> {}, sent |-> <<>>, done |-> FALSE, stay |-> {} ]

\* websocket_manager.py 30-36: the list is fetched; an empty one ends the
\* call; otherwise the loop takes its first element and awaits send_json.
BeginBroadcast(kind) ==
    LET connections == ConnectionsOf(Manager, WsSession)
    IN  [ NoBroadcast EXCEPT
            !.kind   = kind,
            !.list   = Get(ws_connections, WsSession, 0),
            !.idx    = 1,
            !.target = IF connections = <<>> THEN "" ELSE connections[1],
            !.start  = Range(connections),
            !.done   = connections = <<>> ]

\* A handler not yet started.
NewSocket ==
    [ at |-> "new", exit |-> "", event |-> <<>>, trust_score |-> 0,
      bc |-> NoBroadcast ]

\* The websockets whose handler is running with the connection open.
Open == { w \in Sockets :
            sock[w].at \in {"accept", "receive", "sending", "stored"} }

\* main.py 443: await ws_manager.connect(session_id, websocket).
WsConnect(w) ==
    /\ sock[w].at = "new"
    /\ SetManager(Connect(Manager, WsSession, w))
    /\ sock' = [sock EXCEPT ![w].at = "accept"]
    /\ UNCHANGED << redis, db, submit >>
    /\ UNCHANGED antiCheatVars
    /\ UNCHANGED outsideServer

\* main.py 445-446: accept, and the connected message is sent.
WsAccept(w) ==
    /\ sock[w].at = "accept"
    /\ sock' = [sock EXCEPT ![w].at = "receive"]
    /\ UNCHANGED << redis, db, submit, ws_connections, ws_lists, ws_locks >>
    /\ UNCHANGED antiCheatVars
    /\ UNCHANGED outsideServer

\* main.py 499-509: the finally block.  complete_session pops the session,
\* the final score is read with the default 100.0, and status and score
\* are stored.
WsFinally ==
    LET scores == Pop(session_trust_scores, WsSession)
        final_trust_score == Get(scores, WsSession, InitialScore)
    IN  /\ session_trust_scores' = scores
        /\ session_events' = Pop(session_events, WsSession)
        /\ since_bootstrap' = Pop(since_bootstrap, WsSession)
        /\ redis' = HSet(redis, SessionKey(WsSession),
                         [ status      |-> "completed",
                           trust_score |-> StrOf(final_trust_score) ])
        /\ UNCHANGED << session_scores, ret, n_events, n_recorded >>
        /\ UNCHANGED << db, submit >>
        /\ UNCHANGED outsideServer

\* main.py 445-446, 497-498: accept or the first send_json raises
\* WebSocketDisconnect; the websocket is unregistered, then finally.
WsAcceptDisconnected(w) ==
    /\ sock[w].at = "accept"
    /\ SetManager(Disconnect(Manager, WsSession, w))
    /\ sock' = [sock EXCEPT ![w].at = "closed", ![w].exit = "disconnect"]
    /\ WsFinally

\* main.py 448: the message stream ends and the loop is left normally;
\* only finally runs.
WsStreamEnds(w) ==
    /\ sock[w].at = "receive"
    /\ sock' = [sock EXCEPT ![w].at = "closed", ![w].exit = "end"]
    /\ UNCHANGED << ws_connections, ws_lists, ws_locks >>
    /\ WsFinally

\* main.py 449-450: json.loads or InterviewEvent(**data) raises on a
\* message that is no event; no handler matches, finally runs and the
\* exception leaves interview_ws.
WsMalformedMessage(w) ==
    /\ sock[w].at = "receive"
    /\ sock' = [sock EXCEPT ![w].at = "closed", ![w].exit = "exception"]
    /\ UNCHANGED << ws_connections, ws_lists, ws_locks >>
    /\ WsFinally

\* main.py 452-453: record_event and snapshot, for every event.
WsRecord(w, event) ==
    /\ n_events < MaxEvents
    /\ session_events' =
          Put(session_events, WsSession,
              Append(Get(session_events, WsSession, <<>>), EntryOf(event)))
    /\ session_trust_scores' =
          Put(session_trust_scores, WsSession,
              Debit(Get(session_trust_scores, WsSession, InitialScore),
                    PenaltyOf(event)))
    /\ since_bootstrap' =
          IF WsSession \in DOMAIN since_bootstrap
          THEN Put(since_bootstrap, WsSession,
                   Append(since_bootstrap[WsSession], event))
          ELSE since_bootstrap
    /\ n_recorded' =
          IF WsSession \in DOMAIN n_recorded
          THEN Put(n_recorded, WsSession, n_recorded[WsSession] + 1)
          ELSE n_recorded
    /\ n_events' = n_events + 1
    /\ UNCHANGED << session_scores, ret >>

\* main.py 448-464: a chat message.  log_chat does nothing and the reply
\* of the interviewer is a task of its own.
WsChat(w) ==
    /\ sock[w].at = "receive"
    /\ \E event \in WsEvents :
          /\ event.type = "chat:user"
          /\ WsRecord(w, event)
          /\ sock' = [sock EXCEPT
                        ![w].event = event,
                        ![w].trust_score = session_trust_scores'[WsSession]]
    /\ UNCHANGED << redis, db, submit, ws_connections, ws_lists, ws_locks >>
    /\ UNCHANGED outsideServer

\* main.py 448-453, 465-470: a code update; latest_code is stored.
WsCodeUpdate(w) ==
    /\ sock[w].at = "receive"
    /\ \E event \in WsEvents :
          /\ event.type = "code:update"
          /\ WsRecord(w, event)
          /\ sock' = [sock EXCEPT
                        ![w].event = event,
                        ![w].trust_score = session_trust_scores'[WsSession]]
          /\ redis' = HSet(redis, SessionKey(WsSession),
                           [latest_code |-> Get(event.payload, "content", "")])
    /\ UNCHANGED << db, submit, ws_connections, ws_lists, ws_locks >>
    /\ UNCHANGED outsideServer

\* main.py 483-486: the snapshot's score is stored; its await is where the
\* handler stops next.
StoreTrustScore(w) ==
    HSet(redis, SessionKey(WsSession),
         [trust_score |-> StrOf(sock[w].trust_score)])

\* main.py 448-453, 472-482: an anti-cheat event; the broadcast of the
\* snapshot begins.  With nobody registered broadcast returns at once and
\* the handler goes on to store the score.
WsAntiCheat(w) ==
    /\ sock[w].at = "receive"
    /\ \E event \in WsEvents :
          /\ IsAntiCheat(event)
          /\ WsRecord(w, event)
          /\ LET call == BeginBroadcast("anticheat")
                 score == session_trust_scores'[WsSession]
             IN  IF call.done
                 THEN /\ sock' = [sock EXCEPT ![w].event = event,
                                              ![w].trust_score = score,
                                              ![w].bc = call,
                                              ![w].at = "stored"]
                      /\ redis' = HSet(redis, SessionKey(WsSession),
                                       [trust_score |-> StrOf(score)])
                 ELSE /\ sock' = [sock EXCEPT ![w].event = event,
                                              ![w].trust_score = score,
                                              ![w].bc = call,
                                              ![w].at = "sending"]
                      /\ redis' = redis
    /\ UNCHANGED << db, submit, ws_connections, ws_lists, ws_locks >>
    /\ UNCHANGED outsideServer

\* websocket_manager.py 34-40: the awaited send_json returns or raises;
\* the loop takes the next element of the list as it is now, or ends, and
\* then the dead websockets are unregistered.  After the first broadcast
\* the handler stores the score (main.py 483), after the warning it
\* returns to the message stream (main.py 496, 448).
BroadcastStep(w) ==
    /\ sock[w].at = "sending"
    /\ \E ok \in BOOLEAN :
          LET f    == sock[w].bc
              f1   == [f EXCEPT
                         !.sent = IF ok THEN Append(@, f.target) ELSE @,
                         !.dead = IF ok THEN @ ELSE Append(@, f.target),
                         !.idx  = @ + 1]
              list == ws_lists[f.list]
          IN  IF f1.idx <= Len(list)
              THEN /\ sock' = [sock EXCEPT
                                 ![w].bc = [f1 EXCEPT !.target = list[f1.idx]]]
                   /\ UNCHANGED << redis, ws_connections, ws_lists, ws_locks >>
              ELSE LET m == DisconnectAll(Manager, WsSession, f1.dead)
                       f2 == [f1 EXCEPT
                                !.target = "",
                                !.done = TRUE,
                                !.stay = Range(ConnectionsOf(m, WsSession))]
                   IN  /\ SetManager(m)
                       /\ IF f.kind = "anticheat"
                          THEN /\ sock' = [sock EXCEPT ![w].bc = f2,
                                                       ![w].at = "stored"]
                               /\ redis' = StoreTrustScore(w)
                          ELSE /\ sock' = [sock EXCEPT ![w].bc = f2,
                                                       ![w].at = "receive"]
                               /\ redis' = redis
    /\ UNCHANGED << db, submit >>
    /\ UNCHANGED antiCheatVars
    /\ UNCHANGED outsideServer

\* main.py 490-496: after the score is stored, a paste of 600 characters
\* or more is answered with a warning to the session; otherwise the
\* handler returns to the message stream.
WsAfterStore(w) ==
    /\ sock[w].at = "stored"
    /\ LET event == sock[w].event
           large == /\ event.type = "anticheat:paste"
                    /\ Get(event.payload, "chars", 0) >= 600
           call == BeginBroadcast("chat:ai")
       IN  IF large /\ ~call.done
           THEN sock' = [sock EXCEPT ![w].bc = call, ![w].at = "sending"]
           ELSE IF large
           THEN sock' = [sock EXCEPT ![w].bc = call, ![w].at = "receive"]
           ELSE sock' = [sock EXCEPT ![w].at = "receive"]
    /\ UNCHANGED << redis, db, submit, ws_connections, ws_lists, ws_locks >>
    /\ UNCHANGED antiCheatVars
    /\ UNCHANGED outsideServer

\* The session was started (main.py 219-245) and no websocket has been
\* opened for it.
InitInterview ==
    /\ task_file = NoFile
    /\ language = "python"
    /\ platform = "up"
    /\ EvaluateAtStart
    /\ NoRunCalls
    /\ OneEvaluation
    /\ session_trust_scores = Put(EmptyDict, WsSession, InitialScore)
    /\ session_events = Put(EmptyDict, WsSession, <<>>)
    /\ session_scores = EmptyDict
    /\ ret = NoReturn
    /\ since_bootstrap = Put(EmptyDict, WsSession, <<>>)
    /\ n_events = 0
    /\ n_recorded = Put(EmptyDict, WsSession, 0)
    /\ redis = Put(EmptyDict, SessionKey(WsSession),
                   StartedSession(EarlierResult))
    /\ db = EmptyDict
    /\ submit = NoRequest
    /\ ws_connections = EmptyDict
    /\ ws_lists = <<>>
    /\ ws_locks = {}
    /\ sock = [w \in Sockets |-> NewSocket]

NextInterview ==
    \/ \E w \in Sockets : WsConnect(w)
    \/ \E w \in Sockets : WsAccept(w)
    \/ \E w \in Sockets : WsAcceptDisconnected(w)
    \/ \E w \in Sockets : WsStreamEnds(w)
    \/ \E w \in Sockets : WsMalformedMessage(w)
    \/ \E w \in Sockets : WsChat(w)
    \/ \E w \in Sockets : WsCodeUpdate(w)
    \/ \E w \in Sockets : WsAntiCheat(w)
    \/ \E w \in Sockets : BroadcastStep(w)
    \/ \E w \in Sockets : WsAfterStore(w)

SpecInterview == InitInterview /\ [][NextInterview]_vars

\* A step in which the handler of websocket w ends.
HandlerEnds(w) == sock[w].at /= "closed" /\ sock'[w].at = "closed"

\* C25: the trust score a handler writes when it ends, together with
\* status completed, is the score the session had accumulated when the
\* handler ended.
C25_FinalScoreIsAccumulatedScore ==
    [][ \A w \in Sockets :
          HandlerEnds(w) =>
             LET stored == redis'[SessionKey(WsSession)]
             IN  /\ stored.status = "completed"
                 /\ stored.trust_score =
                       StrOf(Get(session_trust_scores, WsSession,
                                 InitialScore))
      ]_vars

\* C26: a chat:user or code:update message leaves the session's trust
\* score and event list as they were, and a step that lowers the trust
\* score handles an anti-cheat event.
C26_OnlyAntiCheatEventsCount ==
    [][ /\ (\E w \in Sockets : WsChat(w) \/ WsCodeUpdate(w)) =>
              UNCHANGED << session_trust_scores, session_events >>
        /\ ( /\ WsSession \in DOMAIN session_trust_scores'
             /\ session_trust_scores'[WsSession]
                   < Get(session_trust_scores, WsSession, InitialScore) ) =>
              \E w \in Sockets : WsAntiCheat(w)
      ]_vars

\* C27: when a handler ends while another websocket of the session is
\* open, the session's trust score and recorded events stay.
C27_OpenSessionKeepsScoreAndEvents ==
    [][ \A w \in Sockets :
          (HandlerEnds(w) /\ Open \ {w} /= {}) =>
             /\ Get(session_trust_scores', WsSession, InitialScore)
                   = Get(session_trust_scores, WsSession, InitialScore)
             /\ Get(session_events', WsSession, <<>>)
                   = Get(session_events, WsSession, <<>>)
      ]_vars

\* How often x occurs in seq.
Count(seq, x) == Cardinality({ k \in 1..Len(seq) : seq[k] = x })

\* C28: a broadcast that has ended sent its message exactly once to every
\* websocket that was registered when it started and was registered when
\* it ended.
C28_BroadcastReachesEveryConnection ==
    \A w \in DOMAIN sock :
        sock[w].bc.done =>
            \A c \in sock[w].bc.start \cap sock[w].bc.stay :
                Count(sock[w].bc.sent, c) = 1

\* C29: a websocket whose handler has ended is registered nowhere, and
\* the connection and lock tables hold entries only for sessions with a
\* registered connection.
C29_EndedHandlerIsUnregistered ==
    /\ \A w \in DOMAIN sock :
          sock[w].at = "closed" =>
              \A s \in DOMAIN ws_connections :
                  w \notin Range(ws_lists[ws_connections[s]])
    /\ \A s \in DOMAIN ws_connections : ws_lists[ws_connections[s]] /= <<>>
    /\ ws_locks \subseteq DOMAIN ws_connections

====
